---- MODULE Spec2Model ----
(***************************************************************************)
(* Decision gateway of gorules-rule-engine: the KYC fact adapter, the     *)
(* canonical fact schema, the rule repository (load_rule / reload_rules), *)
(* the reference evaluator (MockRuleEngineService.evaluate), the rule     *)
(* editor endpoint and the KYC eligibility endpoint.                      *)
(*                                                                         *)
(* Conventions of the model                                                *)
(*   - a Python str is a sequence of one-character strings, so that       *)
(*     str.lower, str.upper, slicing and the regular expressions are      *)
(*     computed character by character;                                   *)
(*   - an Enum member is a TLA+ string ("VERIFIED");                      *)
(*   - Optional[T] is a sequence of length 0 (None) or 1 (<<value>>);     *)
(*   - a float is a fixed-point integer with unit One (1.0 = One), so a   *)
(*     vendor percentage 95.0 is 95 * One and x / 100.0 is x \div 100.    *)
(***************************************************************************)
EXTENDS Integers, Sequences, FiniteSets, TLC

VARIABLES
    storage,    \* rules directory: path -> file content
    cache,      \* engine -> (path -> cached definition), RuleEngineService._rule_cache
    since,      \* history: engine -> path -> definition returned by a load since the last reload_rules
    written,    \* history: path -> content of the last successful update_rule, while the file still holds it
    last,       \* history: the last rule-repository / rule-editor operation and its result
    req,        \* the decision request being served by evaluate_kyc_eligibility
    adaptIn,    \* arguments of a direct KYCFactAdapter.adapt call
    adaptOut,   \* its result
    evalIn,     \* facts mapping of a direct MockRuleEngineService.evaluate call
    evalOut,    \* its result
    loaders,    \* concurrent load_rule calls in progress: caller -> position and local rule_def
    held,       \* history: path -> the definitions the file of the path has held
    writer      \* position of the update_rule call in progress

vars ==
    <<storage, cache, since, written, last, req, adaptIn, adaptOut, evalIn, evalOut,
      loaders, held, writer>>

-----------------------------------------------------------------------------
(* Python values *)

None == <<>>
Some(x) == <<x>>
IsNone(o) == o = <<>>
Val(o) == o[1]

Min2(a, b) == IF b < a THEN b ELSE a
Max2(a, b) == IF b > a THEN b ELSE a

UpperAlpha == <<"A","B","C","D","E","F","G","H","I","J","K","L","M",
                "N","O","P","Q","R","S","T","U","V","W","X","Y","Z">>
LowerAlpha == <<"a","b","c","d","e","f","g","h","i","j","k","l","m",
                "n","o","p","q","r","s","t","u","v","w","x","y","z">>
DigitChars == {"0","1","2","3","4","5","6","7","8","9"}
HexLowerChars == {"a","b","c","d","e","f"}

IsUpperChar(c) == \E i \in 1..26 : UpperAlpha[i] = c
IsLowerChar(c) == \E i \in 1..26 : LowerAlpha[i] = c
ToLowerChar(c) ==
    IF IsUpperChar(c) THEN LowerAlpha[CHOOSE i \in 1..26 : UpperAlpha[i] = c] ELSE c
ToUpperChar(c) ==
    IF IsLowerChar(c) THEN UpperAlpha[CHOOSE i \in 1..26 : LowerAlpha[i] = c] ELSE c

\* str.lower() and str.upper()
StrLower(s) == [i \in 1..Len(s) |-> ToLowerChar(s[i])]
StrUpper(s) == [i \in 1..Len(s) |-> ToUpperChar(s[i])]

\* dict.get(key, default)
DictGet(d, k, default) == IF k \in DOMAIN d THEN d[k] ELSE default

-----------------------------------------------------------------------------
(* Canonical fact schema: app/domain/kyc/v1/models.py *)

PANVerificationStatus == {"VERIFIED", "NOT_VERIFIED", "INVALID", "PENDING", "ERROR"}
CustomerState ==
    {"ANDHRA_PRADESH", "KARNATAKA", "MAHARASHTRA", "TAMIL_NADU", "DELHI", "WEST_BENGAL",
     "GUJARAT", "RAJASTHAN", "UTTAR_PRADESH", "TELANGANA", "OTHER"}
CustomerType == {"RETAIL", "PREMIUM", "CORPORATE", "GOVERNMENT"}
CIBILFetchStatus == {"SUCCESS", "FAILURE", "NO_HISTORY", "TIMEOUT"}
KYCEligibilityStatus == {"APPROVED", "REJECTED", "MANUAL_REVIEW", "PENDING_DOCUMENTS"}
KYCRejectionReason ==
    {"PAN_INVALID", "PAN_NAME_MISMATCH", "AGE_BELOW_THRESHOLD", "CIBIL_SCORE_LOW",
     "DUPLICATE_CUSTOMER", "RESTRICTED_STATE", "INCOMPLETE_DOCUMENTS"}

\* 1.0 in the fixed-point representation of floats (resolution 1/100)
One == 100
\* Field(ge=18, le=120) of customer_age
AGE_GE == 18
AGE_LE == 120
\* Field(ge=300, le=900) of cibil_score
CIBIL_GE == 300
CIBIL_LE == 900
\* min_length = max_length = 10 of pan_number
PAN_LENGTH == 10

\* pattern ^[A-Z]{5}[0-9]{4}[A-Z]{1}$ with min_length = max_length = 10
PanPatternOk(s) ==
    /\ Len(s) = PAN_LENGTH
    /\ \A i \in 1..5 : IsUpperChar(s[i])
    /\ \A i \in 6..9 : s[i] \in DigitChars
    /\ IsUpperChar(s[10])

\* a string in canonical UUID textual form, in either letter case
HexCharAnyCase(c) == c \in DigitChars \/ ToLowerChar(c) \in HexLowerChars
UuidShape(s) ==
    /\ Len(s) = 36
    /\ \A i \in 1..36 :
          IF i \in {9, 14, 19, 24} THEN s[i] = "-" ELSE HexCharAnyCase(s[i])
IsLowerUuid(s) == UuidShape(s) /\ StrLower(s) = s

\* re.match(r'^[a-f0-9]{8}-...-[a-f0-9]{12}$', v, re.IGNORECASE): in Python "$"
\* matches at the end of the string and also just before a final newline.
UuidRegexMatch(v) ==
    \/ UuidShape(v)
    \/ /\ Len(v) = 37
       /\ v[37] = "\n"
       /\ UuidShape(SubSeq(v, 1, 36))

\* validate_correlation_id: raises ValueError on no match, else returns v.lower()
validate_correlation_id(v) ==
    IF UuidRegexMatch(v) THEN [ok |-> TRUE, value |-> StrLower(v)]
    ELSE [ok |-> FALSE, value |-> v]

\* The Field(...) constraints of KYCFactsV1, one predicate per field.
\* A mutant of the PAN constraint: only the length is checked.
PanFieldOk_LengthOnly(f) == Len(f.pan_number) = PAN_LENGTH
PanFieldOk(f) == PanPatternOk(f.pan_number)
StatusFieldOk(f) == f.pan_verification_status \in PANVerificationStatus
NameScoreFieldOk(f) == f.pan_name_match_score >= 0 /\ f.pan_name_match_score <= One
\* A mutant of the age constraint: the lower bound is exclusive.
AgeFieldOk_ExclusiveLowerBound(f) == f.customer_age > AGE_GE /\ f.customer_age <= AGE_LE
AgeFieldOk(f) == f.customer_age >= AGE_GE /\ f.customer_age <= AGE_LE
StateFieldOk(f) == f.customer_state \in CustomerState
TypeFieldOk(f) == f.customer_type \in CustomerType
CibilScoreFieldOk(f) ==
    IsNone(f.cibil_score) \/ (Val(f.cibil_score) >= CIBIL_GE /\ Val(f.cibil_score) <= CIBIL_LE)
CibilStatusFieldOk(f) == f.cibil_fetch_status \in CIBILFetchStatus
DedupeFoundFieldOk(f) == f.dedupe_match_found \in BOOLEAN
DedupeConfidenceFieldOk(f) ==
    IsNone(f.dedupe_match_confidence)
    \/ (Val(f.dedupe_match_confidence) >= 0 /\ Val(f.dedupe_match_confidence) <= One)

\* KYCFactsV1(**fields): construction validates every field; a single failing
\* field raises ValidationError and no object exists.
KYCFactsV1(f) ==
    LET cid == validate_correlation_id(f.correlation_id)
        valid == /\ PanFieldOk(f)
                 /\ StatusFieldOk(f)
                 /\ NameScoreFieldOk(f)
                 /\ AgeFieldOk(f)
                 /\ StateFieldOk(f)
                 /\ TypeFieldOk(f)
                 /\ CibilScoreFieldOk(f)
                 /\ CibilStatusFieldOk(f)
                 /\ DedupeFoundFieldOk(f)
                 /\ DedupeConfidenceFieldOk(f)
                 /\ cid.ok
    IN  IF valid
        THEN [ok |-> TRUE, facts |-> [f EXCEPT !.correlation_id = cid.value]]
        ELSE [ok |-> FALSE, facts |-> None]

-----------------------------------------------------------------------------
(* Fact adapter: app/adapters/kyc_adapter.py *)

\* KYCFactAdapter.KARZA_STATUS_MAP
KARZA_STATUS_MAP ==
       (<<"v","a","l","i","d">> :> "VERIFIED")
    @@ (<<"i","n","v","a","l","i","d">> :> "INVALID")
    @@ (<<"p","e","n","d","i","n","g">> :> "PENDING")
    @@ (<<"e","r","r","o","r">> :> "ERROR")

\* KYCFactAdapter.STATE_CODE_MAP
STATE_CODE_MAP ==
       (<<"A","P">> :> "ANDHRA_PRADESH")
    @@ (<<"K","A">> :> "KARNATAKA")
    @@ (<<"M","H">> :> "MAHARASHTRA")
    @@ (<<"T","N">> :> "TAMIL_NADU")
    @@ (<<"D","L">> :> "DELHI")
    @@ (<<"W","B">> :> "WEST_BENGAL")
    @@ (<<"G","J">> :> "GUJARAT")
    @@ (<<"R","J">> :> "RAJASTHAN")
    @@ (<<"U","P">> :> "UTTAR_PRADESH")
    @@ (<<"T","G">> :> "TELANGANA")

\* KYCFactAdapter.CUSTOMER_SEGMENT_MAP
CUSTOMER_SEGMENT_MAP ==
       (<<"r","e","t","a","i","l">> :> "RETAIL")
    @@ (<<"p","r","e","m","i","u","m">> :> "PREMIUM")
    @@ (<<"c","o","r","p","o","r","a","t","e">> :> "CORPORATE")
    @@ (<<"g","o","v","e","r","n","m","e","n","t">> :> "GOVERNMENT")

\* KYCFactAdapter.CIBIL_STATUS_MAP
CIBIL_STATUS_MAP ==
       (<<"2","0","0">> :> "SUCCESS")
    @@ (<<"4","0","4">> :> "NO_HISTORY")
    @@ (<<"5","0","0">> :> "FAILURE")
    @@ (<<"t","i","m","e","o","u","t">> :> "TIMEOUT")

\* The divisor of the 0-100 scale: x / 100.0
PERCENT_SCALE == 100

\* A mutant of the status normalisation: the vendor string is looked up as given.
NormalizePanStatus_CaseSensitive(status) == DictGet(KARZA_STATUS_MAP, status, "ERROR")
\* KARZA_STATUS_MAP.get(status.lower(), PANVerificationStatus.ERROR)
NormalizePanStatus(status) == DictGet(KARZA_STATUS_MAP, StrLower(status), "ERROR")
\* STATE_CODE_MAP.get(state_code.upper(), CustomerState.OTHER)
NormalizeState(state_code) == DictGet(STATE_CODE_MAP, StrUpper(state_code), "OTHER")
\* CUSTOMER_SEGMENT_MAP.get(segment.lower(), CustomerType.RETAIL)
NormalizeSegment(segment) == DictGet(CUSTOMER_SEGMENT_MAP, StrLower(segment), "RETAIL")
\* CIBIL_STATUS_MAP.get(status_code, CIBILFetchStatus.FAILURE): no case folding
NormalizeCibilStatus(status_code) == DictGet(CIBIL_STATUS_MAP, status_code, "FAILURE")

\* A mutant of the scale conversion: the upper clamp is missing.
ScaleToUnit_NoUpperClamp(x) == Max2(x \div PERCENT_SCALE, 0)
\* min(max(x / 100.0, 0.0), 1.0)
ScaleToUnit(x) == Min2(Max2(x \div PERCENT_SCALE, 0), One)

\* datetime.strptime(s, "%Y-%m-%d"): a date is <<year, month, day>>, and a string
\* that does not parse is the empty tuple.
IsLeap(y) == (y % 4 = 0 /\ y % 100 # 0) \/ y % 400 = 0
DaysInMonth(y, m) ==
    IF m = 2 THEN (IF IsLeap(y) THEN 29 ELSE 28)
    ELSE IF m \in {4, 6, 9, 11} THEN 30 ELSE 31
StrptimeOk(d) ==
    /\ Len(d) = 3
    /\ d[1] >= 1 /\ d[1] <= 9999
    /\ d[2] >= 1 /\ d[2] <= 12
    /\ d[3] >= 1 /\ d[3] <= DaysInMonth(d[1], d[2])

\* (today.month, today.day) < (dob.month, dob.day): tuple comparison
MonthDayBefore(a, b) == a[2] < b[2] \/ (a[2] = b[2] /\ a[3] < b[3])
\* A mutant of the age computation: the difference of the years alone.
ComputeAge_YearsOnly(today, dob) == today[1] - dob[1]
\* today.year - dob.year - ((today.month, today.day) < (dob.month, dob.day))
ComputeAge(today, dob) == today[1] - dob[1] - (IF MonthDayBefore(today, dob) THEN 1 ELSE 0)

\* KYCFactAdapter.adapt(karza_response, customer_data, cibil_response,
\* dedupe_response, correlation_id). `a` holds the four DTOs, the optional
\* correlation id and the two non-deterministic inputs of the call: the value
\* uuid4() returns (a.fresh_uuid) and datetime.now() (a.today).
\* Every exception inside the try block is re-raised as ValueError.
adapt(a) ==
    LET correlation_id ==
            IF IsNone(a.correlation_id) THEN a.fresh_uuid ELSE Val(a.correlation_id)
        dedupe_match_confidence ==
            IF IsNone(a.dedupe.match_score) THEN None
            ELSE Some(ScaleToUnit(Val(a.dedupe.match_score)))
        fields ==
            [pan_number              |-> StrUpper(a.karza.pan),
             pan_verification_status |-> NormalizePanStatus(a.karza.status),
             pan_name_match_score    |-> ScaleToUnit(a.karza.name_match_percentage),
             customer_age            |-> ComputeAge(a.today, a.customer.date_of_birth),
             customer_state          |-> NormalizeState(a.customer.state_code),
             customer_type           |-> NormalizeSegment(a.customer.segment),
             cibil_score             |-> a.cibil.score,
             cibil_fetch_status      |-> NormalizeCibilStatus(a.cibil.status_code),
             dedupe_match_found      |-> a.dedupe.is_duplicate,
             dedupe_match_confidence |-> dedupe_match_confidence,
             correlation_id          |-> correlation_id]
    IN  IF ~StrptimeOk(a.customer.date_of_birth)
        THEN [ok |-> FALSE, error |-> "ValueError", message |-> "Fact adaptation error",
              facts |-> None]
        ELSE LET built == KYCFactsV1(fields)
             IN  IF built.ok
                 THEN [ok |-> TRUE, error |-> "", message |-> "", facts |-> built.facts]
                 ELSE [ok |-> FALSE, error |-> "ValueError",
                       message |-> "Invalid fact data", facts |-> None]

\* Every Field constraint of the schema, and the canonical form of the
\* correlation id, on a constructed record.
SchemaValid(f) ==
    /\ PanPatternOk(f.pan_number)
    /\ f.pan_verification_status \in PANVerificationStatus
    /\ f.pan_name_match_score >= 0 /\ f.pan_name_match_score <= One
    /\ f.customer_age >= AGE_GE /\ f.customer_age <= AGE_LE
    /\ f.customer_state \in CustomerState
    /\ f.customer_type \in CustomerType
    /\ (IsNone(f.cibil_score)
        \/ (Val(f.cibil_score) >= CIBIL_GE /\ Val(f.cibil_score) <= CIBIL_LE))
    /\ f.cibil_fetch_status \in CIBILFetchStatus
    /\ f.dedupe_match_found \in BOOLEAN
    /\ (IsNone(f.dedupe_match_confidence)
        \/ (Val(f.dedupe_match_confidence) >= 0 /\ Val(f.dedupe_match_confidence) <= One))
    /\ IsLowerUuid(f.correlation_id)

-----------------------------------------------------------------------------
(* Rule repository and evaluators: app/services/rule_engine.py *)

\* The two module-level engine instances: kyc.py line 43 and rules.py line 22.
KycEngine == "kyc"
RulesEngine == "rules"
Engines == {KycEngine, RulesEngine}

\* rule_path = "kyc/pan_eligibility_v1.json" of the eligibility endpoint
KycRulePath == "kyc/pan_eligibility_v1.json"
Paths == {KycRulePath, "aml/screening_v1.json"}

\* Rule definitions (the dict json.load returns) and file contents.
Docs == {"docA", "docB"}
NoFile == [kind |-> "absent"]
Garbage == [kind |-> "garbage"]
JsonFile(d) == [kind |-> "json", doc |-> d]
FileContents == {NoFile, Garbage} \cup {JsonFile(d) : d \in Docs}

EmptyDict == [x \in {} |-> x]

\* A mutant of the cache insertion: the entry is created empty, to be filled
\* once the file is parsed.
CacheInsert_EmptyFirst(c, rule_path, rule_def) == (rule_path :> "{}") @@ c

\* self._rule_cache[rule_path] = rule_def
CacheInsert(c, rule_path, rule_def) == (rule_path :> rule_def) @@ c

\* A mutant of load_rule: the cache is never consulted.
load_rule_NoCache(c, files, rule_path, use_cache) ==
    LET f == files[rule_path]
    IN  IF f.kind = "json"
        THEN [outcome |-> "ok", message |-> "", value |-> Some(f.doc),
              cache |-> (rule_path :> f.doc) @@ c, read |-> TRUE]
        ELSE [outcome |-> "ValueError", message |-> "Rule not found", value |-> None,
              cache |-> c, read |-> TRUE]

\* A mutant of load_rule: a failed read drops the entry of the path.
load_rule_EvictsOnFailure(c, files, rule_path, use_cache) ==
    IF use_cache /\ rule_path \in DOMAIN c
    THEN [outcome |-> "ok", message |-> "", value |-> Some(c[rule_path]),
          cache |-> c, read |-> FALSE]
    ELSE LET f == files[rule_path]
         IN  IF f.kind = "json"
             THEN [outcome |-> "ok", message |-> "", value |-> Some(f.doc),
                   cache |-> CacheInsert(c, rule_path, f.doc), read |-> TRUE]
             ELSE [outcome |-> "ValueError", message |-> "Rule not found", value |-> None,
                   cache |-> [q \in DOMAIN c \ {rule_path} |-> c[q]], read |-> TRUE]

\* RuleEngineService.load_rule(rule_path, use_cache) on an engine whose
\* _rule_cache is c, with the rules directory holding `files`.
\* The result: the outcome (returned or ValueError), the returned definition,
\* the cache afterwards and whether the file was opened.
load_rule(c, files, rule_path, use_cache) ==
    IF use_cache /\ rule_path \in DOMAIN c
    THEN [outcome |-> "ok", message |-> "", value |-> Some(c[rule_path]),
          cache |-> c, read |-> FALSE]
    ELSE LET f == files[rule_path]
         IN  CASE f.kind = "absent" ->
                    [outcome |-> "ValueError", message |-> "Rule not found",
                     value |-> None, cache |-> c, read |-> TRUE]
               [] f.kind = "garbage" ->
                    [outcome |-> "ValueError", message |-> "Invalid rule format",
                     value |-> None, cache |-> c, read |-> TRUE]
               [] f.kind = "json" ->
                    [outcome |-> "ok", message |-> "", value |-> Some(f.doc),
                     cache |-> CacheInsert(c, rule_path, f.doc), read |-> TRUE]

\* A mutant of reload_rules: only the entry of one path is dropped.
reload_rules_KeepsOthers(c) ==
    [p \in DOMAIN c \ {KycRulePath} |-> c[p]]
\* RuleEngineService.reload_rules: self._rule_cache.clear()
reload_rules(c) == EmptyDict

\* What the external engine does when asked to evaluate: it is absent
\* (self.engine is None, ZenEngine could not be imported), it returns a result
\* dict, it returns something that is no dict, or it raises.
EngineBehaviours ==
    {[available |-> FALSE, does |-> "nothing", output |-> "none"]}
    \cup {[available |-> TRUE, does |-> "returns", output |-> o] : o \in {"APPROVED", "REJECTED"}}
    \cup {[available |-> TRUE, does |-> "returns_no_dict", output |-> "none"],
          [available |-> TRUE, does |-> "raises", output |-> "none"]}

RuleEvaluationError(c, calls) ==
    [outcome |-> "RuleEvaluationError", value |-> None, cache |-> c, engine_calls |-> calls]

\* A mutant of the delegating evaluator: a fault of the engine is swallowed and
\* an empty result returned.
evaluate_SuppressesFault(c, files, rule_path, facts, engine) ==
    LET l == load_rule(c, files, rule_path, TRUE)
    IN  IF l.outcome # "ok" THEN RuleEvaluationError(l.cache, 0)
        ELSE IF ~engine.available THEN RuleEvaluationError(l.cache, 0)
        ELSE [outcome |-> "ok",
              value |-> Some([result |-> engine.output,
                              metadata |-> [rule_path |-> rule_path]]),
              cache |-> l.cache, engine_calls |-> 1]

\* RuleEngineService.evaluate(rule_path, facts) on an engine whose _rule_cache
\* is c: the rule is loaded, self.engine.evaluate(rule_def, facts) is called
\* once, "_metadata" is added to its result; every exception inside the try
\* block is re-raised as RuleEvaluationError. The result: the outcome, the
\* returned dict, the cache afterwards and the number of calls of the engine.
evaluate(c, files, rule_path, facts, engine) ==
    LET l == load_rule(c, files, rule_path, TRUE)
    IN  IF l.outcome # "ok" THEN RuleEvaluationError(l.cache, 0)
        ELSE IF ~engine.available THEN RuleEvaluationError(l.cache, 0)
        ELSE IF engine.does # "returns" THEN RuleEvaluationError(l.cache, 1)
        ELSE [outcome |-> "ok",
              value |-> Some([result |-> engine.output,
                              metadata |-> [rule_path |-> rule_path]]),
              cache |-> l.cache, engine_calls |-> 1]

\* The minimum age validate_facts_against_registry re-checks
MIN_REGISTRY_AGE == 18

\* Thresholds of the reference evaluator
MIN_AGE == 21
MIN_CIBIL_SCORE == 650

\* Python truthiness of an Optional[int]
Truthy(o) == ~IsNone(o) /\ Val(o) # 0

MockMetadata(rule_path, ms) == [rule_path |-> rule_path, execution_time_ms |-> ms]
MockDecision(rule_path, status, reason) ==
    [kyc_eligibility_status |-> status,
     kyc_rejection_reason   |-> reason,
     metadata               |-> MockMetadata(rule_path, 5 * One)]

\* A mutant of the reference evaluator: the age check runs before the status check.
MockEvaluate_AgeFirst(rule_path, facts) ==
    IF DictGet(facts, "customer_age", 0) < MIN_AGE
    THEN MockDecision(rule_path, "REJECTED", Some("AGE_BELOW_THRESHOLD"))
    ELSE IF DictGet(facts, "pan_verification_status", "") # "VERIFIED"
    THEN MockDecision(rule_path, "REJECTED", Some("PAN_INVALID"))
    ELSE IF DictGet(facts, "dedupe_match_found", FALSE)
    THEN MockDecision(rule_path, "REJECTED", Some("DUPLICATE_CUSTOMER"))
    ELSE IF /\ Truthy(DictGet(facts, "cibil_score", None))
            /\ Val(facts["cibil_score"]) < MIN_CIBIL_SCORE
    THEN MockDecision(rule_path, "REJECTED", Some("CIBIL_SCORE_LOW"))
    ELSE MockDecision(rule_path, "APPROVED", None)

\* A mutant of the reference evaluator: a low name match score is rejected too.
MockEvaluate_ChecksNameMatch(rule_path, facts) ==
    IF "pan_verification_status" \in DOMAIN facts
    THEN IF facts["pan_verification_status"] # "VERIFIED"
            \/ DictGet(facts, "pan_name_match_score", One) < 80
         THEN MockDecision(rule_path, "REJECTED", Some("PAN_INVALID"))
         ELSE IF DictGet(facts, "customer_age", 0) < MIN_AGE
         THEN MockDecision(rule_path, "REJECTED", Some("AGE_BELOW_THRESHOLD"))
         ELSE IF DictGet(facts, "dedupe_match_found", FALSE)
         THEN MockDecision(rule_path, "REJECTED", Some("DUPLICATE_CUSTOMER"))
         ELSE IF /\ Truthy(DictGet(facts, "cibil_score", None))
                 /\ Val(facts["cibil_score"]) < MIN_CIBIL_SCORE
         THEN MockDecision(rule_path, "REJECTED", Some("CIBIL_SCORE_LOW"))
         ELSE MockDecision(rule_path, "APPROVED", None)
    ELSE [error |-> "Unknown rule", metadata |-> MockMetadata(rule_path, 1 * One)]

\* MockRuleEngineService.evaluate(rule_path, facts): no rule is loaded and the
\* rule cache is not touched.
MockEvaluate(rule_path, facts) ==
    IF "pan_verification_status" \in DOMAIN facts
    THEN IF facts["pan_verification_status"] # "VERIFIED"
         THEN MockDecision(rule_path, "REJECTED", Some("PAN_INVALID"))
         ELSE IF DictGet(facts, "customer_age", 0) < MIN_AGE
         THEN MockDecision(rule_path, "REJECTED", Some("AGE_BELOW_THRESHOLD"))
         ELSE IF DictGet(facts, "dedupe_match_found", FALSE)
         THEN MockDecision(rule_path, "REJECTED", Some("DUPLICATE_CUSTOMER"))
         ELSE IF /\ Truthy(DictGet(facts, "cibil_score", None))
                 /\ Val(facts["cibil_score"]) < MIN_CIBIL_SCORE
         THEN MockDecision(rule_path, "REJECTED", Some("CIBIL_SCORE_LOW"))
         ELSE MockDecision(rule_path, "APPROVED", None)
    ELSE [error |-> "Unknown rule", metadata |-> MockMetadata(rule_path, 1 * One)]

-----------------------------------------------------------------------------
(* Sample values *)

PanGood == <<"A","B","C","D","E","1","2","3","4","F">>
PanLower == <<"a","b","c","d","e","1","2","3","4","f">>
PanDash == <<"A","B","C","D","-","1","2","3","4","F">>
PanBad == <<"A","B","C","D","1","2","3","4","E","F">>
UuidLower == <<"5","5","0","e","8","4","0","0","-","e","2","9","b","-","4","1","d","4","-","a","7","1","6","-","4","4","6","6","5","5","4","4","0","0","0","0">>
UuidUpper == <<"5","5","0","E","8","4","0","0","-","E","2","9","B","-","4","1","D","4","-","A","7","1","6","-","4","4","6","6","5","5","4","4","A","B","C","D">>
UuidNewline == <<"5","5","0","e","8","4","0","0","-","e","2","9","b","-","4","1","d","4","-","a","7","1","6","-","4","4","6","6","5","5","4","4","0","0","0","0","\n">>
UuidMalformed == <<"n","o","t","-","a","-","u","u","i","d">>
\* values str(uuid4()) can return
FreshUuids == {<<"7","c","9","e","6","6","7","9","-","7","4","2","5","-","4","0","d","e","-","9","4","4","b","-","e","0","7","f","c","1","f","9","0","a","e","7">>}

-----------------------------------------------------------------------------
(* Direct calls of the reference evaluator: SpecEval *)

BaseFacts ==
    [pan_number              |-> PanGood,
     pan_verification_status |-> "VERIFIED",
     pan_name_match_score    |-> 95,
     customer_age            |-> 32,
     customer_state          |-> "KARNATAKA",
     customer_type           |-> "RETAIL",
     cibil_score             |-> Some(750),
     cibil_fetch_status      |-> "SUCCESS",
     dedupe_match_found      |-> FALSE,
     dedupe_match_confidence |-> None,
     correlation_id          |-> UuidLower]

\* Canonical records, varying the four fields the evaluator reads.
CanonicalFactsSamples ==
    { [BaseFacts EXCEPT !.pan_verification_status = s, !.customer_age = a,
                        !.dedupe_match_found = d, !.cibil_score = c] :
        s \in PANVerificationStatus,
        a \in {18, 20, 21, 32, 120},
        d \in BOOLEAN,
        c \in {None, Some(300), Some(649), Some(650), Some(900)} }

\* Arbitrary mappings, as the rule test endpoint accepts them: keys may be
\* missing and values need not satisfy the schema.
ArbitraryFactsSamples ==
    { [k \in ks |-> CASE k = "pan_verification_status" -> s
                      [] k = "customer_age" -> a
                      [] k = "dedupe_match_found" -> d
                      [] k = "cibil_score" -> c] :
        ks \in SUBSET {"pan_verification_status", "customer_age",
                       "dedupe_match_found", "cibil_score"},
        s \in {"VERIFIED", "verified"},
        a \in {0, 17, 30},
        d \in BOOLEAN,
        c \in {None, Some(0), Some(100)} }

EvalInputs == CanonicalFactsSamples \cup ArbitraryFactsSamples

NotCalled == [called |-> FALSE]

EvalInit ==
    /\ evalIn \in EvalInputs
    /\ evalOut = NotCalled

\* rule_engine.evaluate(rule_path, facts) on a MockRuleEngineService
CallMockEvaluate ==
    /\ ~evalOut.called
    /\ evalOut' = [called |-> TRUE, result |-> MockEvaluate(KycRulePath, evalIn)]
    /\ UNCHANGED <<storage, cache, since, written, last, req, adaptIn, adaptOut, evalIn, loaders, held, writer>>

-----------------------------------------------------------------------------
(* Rule repository and rule editor: SpecRepo *)

NoOp ==
    [op |-> "none", engine |-> "", path |-> "", use_cache |-> FALSE, outcome |-> "",
     value |-> None, read |-> FALSE, stored |-> NoFile, prior |-> None]

\* Callers that may be inside load_rule at the same time
MaxLoaders == 2
Loaders == 1..MaxLoaders
LoaderIdle == [pc |-> "idle", rule_def |-> None]

\* The state after construction: both caches empty.
EnginesConstructed ==
    /\ cache = [e \in Engines |-> EmptyDict]
    /\ since = [e \in Engines |-> [p \in Paths |-> None]]
    /\ written = [p \in Paths |-> None]
    /\ last = NoOp
    /\ loaders = [t \in Loaders |-> LoaderIdle]
    /\ writer = "idle"
    /\ held = [p \in Paths |-> IF storage[p].kind = "json" THEN {storage[p].doc} ELSE {}]

\* The rules directory the service starts with: a file may be missing or
\* may hold text that is not JSON.
StorageStates == [Paths -> {NoFile, Garbage, JsonFile("docA")}]

RequestIdle == [pc |-> "Idle"]

RepoInit ==
    /\ storage \in StorageStates
    /\ EnginesConstructed
    /\ req = RequestIdle
    /\ adaptIn = None /\ adaptOut = NotCalled
    /\ evalIn = None /\ evalOut = NotCalled

\* engine.load_rule(rule_path, use_cache)
LoadRule(e, p, use_cache) ==
    LET r == load_rule(cache[e], storage, p, use_cache)
    IN  /\ cache' = [cache EXCEPT ![e] = r.cache]
        /\ since' = IF r.outcome = "ok" THEN [since EXCEPT ![e][p] = r.value] ELSE since
        /\ last' = [op |-> "load", engine |-> e, path |-> p, use_cache |-> use_cache,
                    outcome |-> r.outcome, value |-> r.value, read |-> r.read,
                    stored |-> storage[p], prior |-> since[e][p]]
        /\ UNCHANGED <<storage, written, req, adaptIn, adaptOut, evalIn, evalOut, loaders, held, writer>>

\* engine.reload_rules()
ReloadRules(e) ==
    /\ cache' = [cache EXCEPT ![e] = reload_rules(cache[e])]
    /\ since' = [since EXCEPT ![e] = [p \in Paths |-> None]]
    /\ last' = [NoOp EXCEPT !.op = "reload", !.engine = e]
    /\ UNCHANGED <<storage, written, req, adaptIn, adaptOut, evalIn, evalOut, loaders, held, writer>>

\* The engine whose cache update_rule clears: the module-level rule_engine of
\* rules.py, an instance of its own.
EditorEngine == RulesEngine

\* PUT /rules/{path} (update_rule) with body content `d`. `io` is the outcome of
\* the file system: the write succeeds, open() fails (file untouched), or
\* json.dump fails after open() truncated the file.
UpdateRule(p, d, io) ==
    /\ storage' = CASE io = "ok" -> [storage EXCEPT ![p] = JsonFile(d)]
                    [] io = "open_fails" -> storage
                    [] io = "dump_fails" -> [storage EXCEPT ![p] = Garbage]
    /\ cache' = IF io = "ok"
                THEN [cache EXCEPT ![EditorEngine] = reload_rules(cache[EditorEngine])]
                ELSE cache
    /\ since' = IF io = "ok"
                THEN [since EXCEPT ![EditorEngine] = [q \in Paths |-> None]]
                ELSE since
    /\ written' = CASE io = "ok" -> [written EXCEPT ![p] = Some(d)]
                    [] io = "open_fails" -> written
                    [] io = "dump_fails" -> [written EXCEPT ![p] = None]
    /\ last' = [NoOp EXCEPT !.op = "update", !.engine = EditorEngine, !.path = p,
                            !.outcome = IF io = "ok" THEN "success" ELSE "500",
                            !.value = Some(d)]
    /\ held' = IF io = "ok" THEN [held EXCEPT ![p] = @ \cup {d}] ELSE held
    /\ UNCHANGED <<req, adaptIn, adaptOut, evalIn, evalOut, loaders, writer>>

RepoNext ==
    \/ \E e \in Engines, p \in Paths, uc \in BOOLEAN : LoadRule(e, p, uc)
    \/ \E e \in Engines : ReloadRules(e)
    \/ \E p \in Paths, d \in Docs, io \in {"ok", "open_fails", "dump_fails"} :
          UpdateRule(p, d, io)

SpecRepo == RepoInit /\ [][RepoNext]_vars

EvalSpecInit ==
    /\ storage = [p \in Paths |-> JsonFile("docA")]
    /\ EnginesConstructed
    /\ req = RequestIdle
    /\ adaptIn = None /\ adaptOut = NotCalled
    /\ EvalInit

SpecEval == EvalSpecInit /\ [][CallMockEvaluate]_vars

-----------------------------------------------------------------------------
(* Successive calls of the reference evaluator on one engine: SpecEvalSeq *)

\* Facts mappings of successive calls: canonical records that differ in the
\* four fields the evaluator reads and in fields it does not read, and
\* mappings with keys missing.
SeqFactsSamples ==
    { [BaseFacts EXCEPT !.pan_verification_status = s, !.customer_age = a,
                        !.dedupe_match_found = d, !.cibil_score = c,
                        !.customer_state = o[1], !.pan_name_match_score = o[2]] :
        s \in {"VERIFIED", "INVALID"},
        a \in {20, 32},
        d \in BOOLEAN,
        c \in {Some(600), Some(750)},
        o \in {<<"KARNATAKA", 95>>, <<"OTHER", 50>>} }
    \cup {EmptyDict, [customer_age |-> 32], [pan_verification_status |-> "VERIFIED"],
          [pan_verification_status |-> "VERIFIED", customer_state |-> "OTHER"]}

SeqInit ==
    /\ storage = [p \in Paths |-> JsonFile("docA")]
    /\ EnginesConstructed
    /\ req = RequestIdle
    /\ adaptIn = None /\ adaptOut = NotCalled
    /\ evalIn \in SeqFactsSamples
    /\ evalOut = [called |-> FALSE, prev |-> None]

\* A caller builds the facts mapping of its next call; the call before it, if
\* any, is remembered with the mapping as that call left it.
PassFacts(facts) ==
    /\ evalOut.called
    /\ evalIn' = facts
    /\ evalOut' = [called |-> FALSE,
                   prev |-> Some([facts |-> evalIn, result |-> evalOut.result])]
    /\ UNCHANGED <<storage, cache, since, written, last, req, adaptIn, adaptOut, loaders, held, writer>>

\* rule_engine.evaluate(rule_path, facts) on the MockRuleEngineService of
\* kyc.py: facts is only read, self._rule_cache is not used.
EvaluateNext(rule_path) ==
    /\ ~evalOut.called
    /\ evalOut' = [called |-> TRUE, result |-> MockEvaluate(rule_path, evalIn),
                   prev |-> evalOut.prev]
    /\ UNCHANGED <<storage, cache, since, written, last, req, adaptIn, adaptOut, evalIn, loaders, held, writer>>

SeqNext ==
    \/ \E facts \in SeqFactsSamples : PassFacts(facts)
    \/ \E rule_path \in Paths : EvaluateNext(rule_path)
    \/ \E p \in Paths : LoadRule(KycEngine, p, TRUE)
    \/ ReloadRules(KycEngine)

SpecEvalSeq == SeqInit /\ [][SeqNext]_vars

-----------------------------------------------------------------------------
(* Concurrent callers of one engine's load_rule: SpecConc *)

\* The engine the callers share and the path they load. The steps of load_rule
\* interleave with each other, with reload_rules and with update_rule's write
\* of the file; each step is one statement of load_rule.
SharedEngine == EditorEngine
ContendedPath == KycRulePath

LoadResult(outcome, value, read) ==
    [NoOp EXCEPT !.op = "load", !.engine = SharedEngine, !.path = ContendedPath,
                 !.use_cache = TRUE, !.outcome = outcome, !.value = value, !.read = read,
                 !.stored = storage[ContendedPath]]

\* load_rule line 69: "if use_cache and rule_path in self._rule_cache"; a
\* caller that finds no entry goes on to the file.
BeginLoad(t, use_cache) ==
    /\ loaders[t].pc = "idle"
    /\ loaders' = [loaders EXCEPT ![t] =
                      [pc |-> IF use_cache /\ ContendedPath \in DOMAIN cache[SharedEngine]
                              THEN "hit" ELSE "reading",
                       rule_def |-> None]]
    /\ UNCHANGED <<storage, cache, since, written, last, req, adaptIn, adaptOut, evalIn, evalOut, held, writer>>

\* load_rule line 71: "return self._rule_cache[rule_path]"; the subscript raises
\* KeyError when the entry has been cleared since the test of line 69.
ReturnCached(t) ==
    /\ loaders[t].pc = "hit"
    /\ last' = IF ContendedPath \in DOMAIN cache[SharedEngine]
               THEN LoadResult("ok", Some(cache[SharedEngine][ContendedPath]), FALSE)
               ELSE LoadResult("KeyError", None, FALSE)
    /\ loaders' = [loaders EXCEPT ![t] = LoaderIdle]
    /\ UNCHANGED <<storage, cache, since, written, req, adaptIn, adaptOut, evalIn, evalOut, held, writer>>

\* load_rule line 73-77 and 83-88: the file is opened and parsed into the local
\* rule_def; a missing or unparsable file raises ValueError.
ReadFile(t) ==
    /\ loaders[t].pc = "reading"
    /\ IF storage[ContendedPath].kind = "json"
       THEN /\ loaders' = [loaders EXCEPT ![t] =
                              [pc |-> "inserting", rule_def |-> Some(storage[ContendedPath].doc)]]
            /\ UNCHANGED last
       ELSE /\ loaders' = [loaders EXCEPT ![t] = LoaderIdle]
            /\ last' = LoadResult("ValueError", None, TRUE)
    /\ UNCHANGED <<storage, cache, since, written, req, adaptIn, adaptOut, evalIn, evalOut, held, writer>>

\* load_rule line 79-81: the definition is put into the cache and returned.
InsertAndReturn(t) ==
    /\ loaders[t].pc = "inserting"
    /\ cache' = [cache EXCEPT ![SharedEngine] =
                    CacheInsert(cache[SharedEngine], ContendedPath, Val(loaders[t].rule_def))]
    /\ since' = [since EXCEPT ![SharedEngine][ContendedPath] = loaders[t].rule_def]
    /\ last' = LoadResult("ok", loaders[t].rule_def, TRUE)
    /\ loaders' = [loaders EXCEPT ![t] = LoaderIdle]
    /\ UNCHANGED <<storage, written, req, adaptIn, adaptOut, evalIn, evalOut, held, writer>>

\* update_rule line 83: open(file_path, "w") leaves the file empty.
WriterOpen ==
    /\ writer = "idle"
    /\ writer' = "opened"
    /\ storage' = [storage EXCEPT ![ContendedPath] = Garbage]
    /\ written' = [written EXCEPT ![ContendedPath] = None]
    /\ UNCHANGED <<cache, since, last, req, adaptIn, adaptOut, evalIn, evalOut, loaders, held>>

\* update_rule line 84: json.dump(update.content, f) completes the file.
WriterDump(d) ==
    /\ writer = "opened"
    /\ writer' = "dumped"
    /\ storage' = [storage EXCEPT ![ContendedPath] = JsonFile(d)]
    /\ written' = [written EXCEPT ![ContendedPath] = Some(d)]
    /\ held' = [held EXCEPT ![ContendedPath] = @ \cup {d}]
    /\ UNCHANGED <<cache, since, last, req, adaptIn, adaptOut, evalIn, evalOut, loaders>>

\* update_rule line 87: rule_engine.reload_rules(), after which the call returns.
WriterReload ==
    /\ writer = "dumped"
    /\ writer' = "idle"
    /\ cache' = [cache EXCEPT ![SharedEngine] = reload_rules(cache[SharedEngine])]
    /\ since' = [since EXCEPT ![SharedEngine] = [p \in Paths |-> None]]
    /\ last' = [NoOp EXCEPT !.op = "update", !.engine = SharedEngine, !.path = ContendedPath,
                            !.outcome = "success", !.value = written[ContendedPath]]
    /\ UNCHANGED <<storage, written, req, adaptIn, adaptOut, evalIn, evalOut, loaders, held>>

ConcInit ==
    /\ storage \in {st \in StorageStates : \A p \in Paths \ {ContendedPath} : st[p] = NoFile}
    /\ EnginesConstructed
    /\ req = RequestIdle
    /\ adaptIn = None /\ adaptOut = NotCalled
    /\ evalIn = None /\ evalOut = NotCalled

ConcNext ==
    \/ \E t \in Loaders, use_cache \in BOOLEAN : BeginLoad(t, use_cache)
    \/ \E t \in Loaders : ReturnCached(t)
    \/ \E t \in Loaders : ReadFile(t)
    \/ \E t \in Loaders : InsertAndReturn(t)
    \/ ReloadRules(SharedEngine)
    \/ WriterOpen
    \/ \E d \in Docs : WriterDump(d)
    \/ WriterReload

SpecConc == ConcInit /\ [][ConcNext]_vars

-----------------------------------------------------------------------------
(* Direct calls of the delegating evaluator: SpecDelegate *)

DelegateInit ==
    /\ storage \in StorageStates
    /\ EnginesConstructed
    /\ req = RequestIdle
    /\ adaptIn = None /\ adaptOut = NotCalled
    /\ evalIn \in {BaseFacts, [BaseFacts EXCEPT !.customer_age = 18]}
    /\ evalOut = NotCalled

\* service.evaluate(rule_path, facts) on the RuleEngineService instance e, the
\* external engine behaving as `engine` during the call
CallEvaluate(e, p, engine) ==
    LET r == evaluate(cache[e], storage, p, evalIn, engine)
    IN  /\ cache' = [cache EXCEPT ![e] = r.cache]
        /\ since' = IF p \in DOMAIN r.cache
                    THEN [since EXCEPT ![e][p] = Some(r.cache[p])] ELSE since
        /\ evalOut' = [called |-> TRUE, result |-> r, engine |-> engine, path |-> p,
                       loadable |-> (p \in DOMAIN cache[e] \/ storage[p].kind = "json")]
        /\ UNCHANGED <<storage, written, last, req, adaptIn, adaptOut, evalIn, loaders, held, writer>>

DelegateNext ==
    \/ \E e \in Engines, p \in Paths, engine \in EngineBehaviours : CallEvaluate(e, p, engine)
    \/ \E e \in Engines : ReloadRules(e)

SpecDelegate == DelegateInit /\ [][DelegateNext]_vars

-----------------------------------------------------------------------------
(* Direct calls of the fact adapter: SpecAdapt *)

BaseAdaptInput ==
    [karza    |-> [pan |-> PanGood, status |-> <<"v","a","l","i","d">>,
                   name_match_percentage |-> 95 * One],
     customer |-> [date_of_birth |-> <<1992, 1, 1>>, state_code |-> <<"K","A">>,
                   segment |-> <<"r","e","t","a","i","l">>],
     cibil    |-> [score |-> Some(750), status_code |-> <<"2","0","0">>],
     dedupe   |-> [is_duplicate |-> FALSE, match_score |-> None],
     correlation_id |-> Some(UuidLower),
     fresh_uuid |-> CHOOSE u \in FreshUuids : TRUE,
     today |-> <<2026, 11, 2>>]

VendorStatusSamples ==
    {<<"v","a","l","i","d">>, <<"V","A","L","I","D">>, <<"I","n","v","a","l","i","d">>, <<"i","n","v","a","l","i","d">>, <<"p","e","n","d","i","n","g">>, <<"e","r","r","o","r">>, <<"u","n","k","n","o","w","n">>, <<"v","e","r","i","f","i","e","d">>, <<>>}
StateCodeSamples ==
    {<<"A","P">>,
     <<"K","A">>,
     <<"k","a">>,
     <<"M","h">>,
     <<"T","N">>,
     <<"D","L">>,
     <<"W","B">>,
     <<"G","J">>,
     <<"R","J">>,
     <<"U","P">>,
     <<"T","G">>,
     <<"X","X">>,
     <<"K","A","R","N","A","T","A","K","A">>}
SegmentSamples ==
    {<<"r","e","t","a","i","l">>,
     <<"R","E","T","A","I","L">>,
     <<"P","r","e","m","i","u","m">>,
     <<"c","o","r","p","o","r","a","t","e">>,
     <<"g","o","v","e","r","n","m","e","n","t">>,
     <<"v","i","p">>}
CibilCodeSamples ==
    {<<"2","0","0">>, <<"4","0","4">>, <<"5","0","0">>, <<"t","i","m","e","o","u","t">>, <<"T","I","M","E","O","U","T">>, <<"5","0","3">>}
\* vendor percentages (fixed point): -10.0, -0.01, 0.0, 50.0, 95.0, 100.0, 100.01, 150.0
PercentSamples == {-10 * One, -1, 0, 50 * One, 95 * One, 100 * One, 100 * One + 1, 150 * One}

\* The normalisation tables: every vendor code, in several letter cases.
AdaptInputsCodes ==
    { [BaseAdaptInput EXCEPT !.karza.status = s, !.customer.state_code = st,
                             !.customer.segment = sg, !.cibil.status_code = c] :
        s \in VendorStatusSamples, st \in StateCodeSamples,
        sg \in {<<"r","e","t","a","i","l">>, <<"P","r","e","m","i","u","m">>}, c \in {<<"2","0","0">>, <<"t","i","m","e","o","u","t">>} }
    \cup
    { [BaseAdaptInput EXCEPT !.customer.segment = sg, !.cibil.status_code = c] :
        sg \in SegmentSamples, c \in CibilCodeSamples }

\* The scale conversions.
AdaptInputsScores ==
    { [BaseAdaptInput EXCEPT !.karza.name_match_percentage = x,
                             !.dedupe.is_duplicate = d, !.dedupe.match_score = m,
                             !.karza.status = s] :
        x \in PercentSamples, d \in BOOLEAN,
        m \in {None} \cup {Some(y) : y \in PercentSamples},
        s \in {<<"v","a","l","i","d">>, <<"i","n","v","a","l","i","d">>} }

\* Valid and invalid values of every field the schema constrains, in every
\* combination.
AdaptInputsValidity ==
    { [BaseAdaptInput EXCEPT !.karza.pan = pan, !.customer.date_of_birth = dob,
                             !.today = td, !.cibil.score = sc,
                             !.karza.status = s, !.correlation_id = cid] :
        pan \in {PanGood, PanLower, PanBad, PanDash},
        dob \in {<<1992, 1, 1>>, <<2008, 11, 3>>, <<2008, 11, 2>>, <<1905, 1, 1>>,
                 <<1992, 2, 30>>, <<>>},
        td \in {<<2026, 11, 2>>, <<2026, 1, 14>>},
        sc \in {None, Some(299), Some(300), Some(900), Some(901)},
        s \in {<<"v","a","l","i","d">>, <<"i","n","v","a","l","i","d">>},
        cid \in {None, Some(UuidLower), Some(UuidUpper), Some(UuidMalformed),
                 Some(UuidNewline)} }

\* Values of datetime.now() and birth dates around a birthday, the end of the
\* year, 29 February and the bounds 18 and 120 of customer_age.
TodaySamples == {<<2026, 11, 2>>, <<2026, 12, 31>>, <<2027, 2, 28>>, <<2028, 2, 29>>}
BirthDateSamples ==
    {<<2000, 11, 1>>, <<2000, 11, 2>>, <<2000, 11, 3>>, <<2000, 1, 1>>, <<2000, 12, 31>>,
     <<2000, 2, 29>>, <<2000, 3, 1>>, <<2008, 11, 2>>, <<2008, 11, 3>>, <<2009, 1, 1>>,
     <<2009, 2, 28>>, <<1906, 11, 2>>, <<1905, 11, 3>>, <<1905, 11, 2>>, <<2026, 11, 2>>,
     <<2030, 1, 1>>}
AdaptInputsDates ==
    { [BaseAdaptInput EXCEPT !.customer.date_of_birth = dob, !.today = td,
                             !.karza.status = s] :
        dob \in BirthDateSamples, td \in TodaySamples,
        s \in {<<"v","a","l","i","d">>, <<"i","n","v","a","l","i","d">>} }

AdaptInputs ==
    AdaptInputsCodes \cup AdaptInputsScores \cup AdaptInputsValidity \cup AdaptInputsDates

\* str.isalnum(): at least one character, all of them letters or digits
IsAlnum(s) ==
    /\ Len(s) > 0
    /\ \A i \in 1..Len(s) : IsUpperChar(s[i]) \/ IsLowerChar(s[i]) \/ s[i] \in DigitChars

\* validate_facts_against_registry(facts): raises FactValidationError on a PAN
\* that is not alphanumeric or an age below 18, else returns None.
validate_facts_against_registry(facts) ==
    IF ~IsAlnum(facts.pan_number)
    THEN [ok |-> FALSE, error |-> "FactValidationError", message |-> "Invalid PAN format"]
    ELSE IF facts.customer_age < MIN_REGISTRY_AGE
    THEN [ok |-> FALSE, error |-> "FactValidationError", message |-> "Customer age below minimum"]
    ELSE [ok |-> TRUE, error |-> "", message |-> ""]

AdaptSpecInit ==
    /\ storage = [p \in Paths |-> JsonFile("docA")]
    /\ EnginesConstructed
    /\ req = RequestIdle
    /\ adaptIn \in AdaptInputs /\ adaptOut = NotCalled
    /\ evalIn = None /\ evalOut = NotCalled

\* KYCFactAdapter.adapt(...)
CallAdapt ==
    /\ ~adaptOut.called
    /\ adaptOut' = [called |-> TRUE, result |-> adapt(adaptIn)]
    /\ UNCHANGED <<storage, cache, since, written, last, req, adaptIn, evalIn, evalOut, loaders, held, writer>>

\* The record adapt returned is evaluated by the reference evaluator:
\* rule_engine.evaluate(rule_path, facts=canonical_facts.model_dump())
EvaluateAdapted ==
    /\ adaptOut.called /\ adaptOut.result.ok
    /\ ~evalOut.called
    /\ evalIn' = adaptOut.result.facts
    /\ evalOut' = [called |-> TRUE, result |-> MockEvaluate(KycRulePath, evalIn')]
    /\ UNCHANGED <<storage, cache, since, written, last, req, adaptIn, adaptOut, loaders, held, writer>>

\* validate_facts_against_registry is called on the record adapt returned.
ValidateAdapted ==
    /\ adaptOut.called /\ adaptOut.result.ok
    /\ "registry" \notin DOMAIN adaptOut
    /\ adaptOut' = [called |-> TRUE, result |-> adaptOut.result,
                    registry |-> validate_facts_against_registry(adaptOut.result.facts)]
    /\ UNCHANGED <<storage, cache, since, written, last, req, adaptIn, evalIn, evalOut, loaders, held, writer>>

AdaptNext == CallAdapt \/ EvaluateAdapted \/ ValidateAdapted

SpecAdapt == AdaptSpecInit /\ [][AdaptNext]_vars

-----------------------------------------------------------------------------
(* A facts record in the hands of its holder: SpecRecord *)

\* KYCFactsV1.Config: "frozen = True" is commented out and validate_assignment
\* is not set.
ConfigFrozen == FALSE
ConfigValidateAssignment == FALSE

\* setattr(facts, name, value) on a KYCFactsV1 object under its Config: refused
\* on a frozen model, validated when validate_assignment is set, and otherwise
\* the field takes the value.
SetAttr(facts, name, value) ==
    IF ConfigFrozen
    THEN [ok |-> FALSE, facts |-> facts]
    ELSE LET assigned == [facts EXCEPT ![name] = value]
         IN  IF ConfigValidateAssignment /\ ~KYCFactsV1(assigned).ok
             THEN [ok |-> FALSE, facts |-> facts]
             ELSE [ok |-> TRUE, facts |-> assigned]

AssignmentSamples ==
    {<<"customer_age", 17>>, <<"customer_age", 40>>,
     <<"pan_verification_status", "VERIFIED">>, <<"cibil_score", Some(950)>>}

RecordInit ==
    /\ storage = [p \in Paths |-> JsonFile("docA")]
    /\ EnginesConstructed
    /\ req = RequestIdle
    /\ adaptIn \in AdaptInputsDates /\ adaptOut = NotCalled
    /\ evalIn = None /\ evalOut = NotCalled

\* facts.<name> = value, by the holder of the record adapt returned
AssignField(name, value) ==
    /\ adaptOut.called /\ adaptOut.result.ok
    /\ LET r == SetAttr(adaptOut.result.facts, name, value)
       IN  /\ r.ok
           /\ adaptOut' = [adaptOut EXCEPT !.result.facts = r.facts]
    /\ UNCHANGED <<storage, cache, since, written, last, req, adaptIn, evalIn, evalOut, loaders, held, writer>>

RecordNext ==
    \/ CallAdapt
    \/ \E a \in AssignmentSamples : AssignField(a[1], a[2])

SpecRecord == RecordInit /\ [][RecordNext]_vars

-----------------------------------------------------------------------------
(* Audit service: app/services/audit.py *)

\* A mutant of log_decision: the record is written twice.
log_decision_WritesTwice(correlation_id, rule_path, input_facts, decision_output, execution_time_ms, fact_model_version, sink) ==
    LET record == [correlation_id     |-> correlation_id,
                   rule_path          |-> rule_path,
                   rule_version       |-> None,
                   execution_time_ms  |-> execution_time_ms,
                   input_facts        |-> input_facts,
                   fact_model_version |-> fact_model_version,
                   decision_output    |-> decision_output]
    IN  [raised |-> FALSE, emitted |-> <<record, record>>, errors |-> <<>>]

\* A mutant of log_decision: a failure of the sink is raised to the caller.
log_decision_Raises(correlation_id, rule_path, input_facts, decision_output, execution_time_ms, fact_model_version, sink) ==
    [raised  |-> sink # "ok",
     emitted |-> <<>>,
     errors  |-> <<>>]

\* AuditService.log_decision(...): builds the DecisionAuditLog and writes it to
\* the audit logger; any exception is caught and logged. `sink` is whether
\* building and writing the record succeeds. rule_version is not passed by the
\* endpoint and keeps its default None.
log_decision(correlation_id, rule_path, input_facts, decision_output, execution_time_ms, fact_model_version, sink) ==
    IF sink = "ok"
    THEN [raised  |-> FALSE,
          emitted |-> << [correlation_id     |-> correlation_id,
                          rule_path          |-> rule_path,
                          rule_version       |-> None,
                          execution_time_ms  |-> execution_time_ms,
                          input_facts        |-> input_facts,
                          fact_model_version |-> fact_model_version,
                          decision_output    |-> decision_output] >>,
          errors  |-> <<>>]
    ELSE [raised  |-> FALSE,
          emitted |-> <<>>,
          errors  |-> <<"Failed to log decision audit">>]

-----------------------------------------------------------------------------
(* KYC eligibility endpoint: app/api/v1/endpoints/kyc.py (Spec) *)

S_VERIFIED == <<"V","E","R","I","F","I","E","D">>
S_SUCCESS == <<"S","U","C","C","E","S","S">>
S_KARNATAKA == <<"K","A","R","N","A","T","A","K","A">>
S_RETAIL == <<"R","E","T","A","I","L">>

\* Bodies of POST /decisions/kyc/eligibility that pass the KYCDecisionRequest
\* validation (score in [0, 1], age >= 18, cibil_score None or in [300, 900]).
RequestSamples ==
    { [pan_number              |-> pan,
       pan_verification_status |-> s,
       pan_name_match_score    |-> 95,
       customer_age            |-> a,
       customer_state          |-> st,
       customer_type           |-> S_RETAIL,
       cibil_score             |-> c,
       cibil_fetch_status      |-> S_SUCCESS,
       dedupe_match_found      |-> d,
       dedupe_match_confidence |-> m,
       correlation_id          |-> cid] :
        pan \in {PanGood, PanBad},
        s \in {S_VERIFIED, <<"v","a","l","i","d">>, <<"i","n","v","a","l","i","d">>},
        a \in {18, 32},
        st \in {S_KARNATAKA, <<"K","A">>},
        c \in {None, Some(600), Some(750)},
        d \in BOOLEAN,
        m \in {None, Some(80)},
        cid \in {None, Some(<<>>), Some(UuidLower), Some(UuidUpper), Some(UuidMalformed)} }

\* The text of each member of the four fact enumerations (class X(str, Enum):
\* the value of a member is its name).
EnumText ==
       ("VERIFIED" :> <<"V","E","R","I","F","I","E","D">>)
    @@ ("NOT_VERIFIED" :> <<"N","O","T","_","V","E","R","I","F","I","E","D">>)
    @@ ("INVALID" :> <<"I","N","V","A","L","I","D">>)
    @@ ("PENDING" :> <<"P","E","N","D","I","N","G">>)
    @@ ("ERROR" :> <<"E","R","R","O","R">>)
    @@ ("ANDHRA_PRADESH" :> <<"A","N","D","H","R","A","_","P","R","A","D","E","S","H">>)
    @@ ("KARNATAKA" :> <<"K","A","R","N","A","T","A","K","A">>)
    @@ ("MAHARASHTRA" :> <<"M","A","H","A","R","A","S","H","T","R","A">>)
    @@ ("TAMIL_NADU" :> <<"T","A","M","I","L","_","N","A","D","U">>)
    @@ ("DELHI" :> <<"D","E","L","H","I">>)
    @@ ("WEST_BENGAL" :> <<"W","E","S","T","_","B","E","N","G","A","L">>)
    @@ ("GUJARAT" :> <<"G","U","J","A","R","A","T">>)
    @@ ("RAJASTHAN" :> <<"R","A","J","A","S","T","H","A","N">>)
    @@ ("UTTAR_PRADESH" :> <<"U","T","T","A","R","_","P","R","A","D","E","S","H">>)
    @@ ("TELANGANA" :> <<"T","E","L","A","N","G","A","N","A">>)
    @@ ("OTHER" :> <<"O","T","H","E","R">>)
    @@ ("RETAIL" :> <<"R","E","T","A","I","L">>)
    @@ ("PREMIUM" :> <<"P","R","E","M","I","U","M">>)
    @@ ("CORPORATE" :> <<"C","O","R","P","O","R","A","T","E">>)
    @@ ("GOVERNMENT" :> <<"G","O","V","E","R","N","M","E","N","T">>)
    @@ ("SUCCESS" :> <<"S","U","C","C","E","S","S">>)
    @@ ("FAILURE" :> <<"F","A","I","L","U","R","E">>)
    @@ ("NO_HISTORY" :> <<"N","O","_","H","I","S","T","O","R","Y">>)
    @@ ("TIMEOUT" :> <<"T","I","M","E","O","U","T">>)

\* Bodies that give the four enumerated fields as enumeration names, the
\* other fields as in the documented example request.
RequestSamplesEnums ==
    { [pan_number              |-> PanGood,
       pan_verification_status |-> EnumText[s],
       pan_name_match_score    |-> 95,
       customer_age            |-> 32,
       customer_state          |-> EnumText[st],
       customer_type           |-> EnumText[ty],
       cibil_score             |-> Some(750),
       cibil_fetch_status      |-> EnumText[cs],
       dedupe_match_found      |-> FALSE,
       dedupe_match_confidence |-> None,
       correlation_id          |-> Some(UuidLower)] :
        s \in {"VERIFIED", "INVALID"},
        st \in {"KARNATAKA", "MAHARASHTRA"},
        ty \in {"RETAIL", "PREMIUM"},
        cs \in {"SUCCESS", "FAILURE"} }

\* The request bodies the service receives
Requests == RequestSamples \cup RequestSamplesEnums

\* Values of datetime.now() while the service runs.
Todays == {<<2026, 1, 14>>, <<2026, 11, 2>>}

\* date_of_birth="1992-01-01", hard-coded by the endpoint
EndpointDateOfBirth == <<1992, 1, 1>>

\* The four DTOs the endpoint builds from the request (kyc.py lines 89-111).
BuildDTOs(request) ==
    [karza    |-> [pan    |-> request.pan_number,
                   status |-> StrLower(request.pan_verification_status),
                   name_match_percentage |-> request.pan_name_match_score * 100],
     customer |-> [date_of_birth |-> EndpointDateOfBirth,
                   state_code |-> IF Len(request.customer_state) > 2
                                  THEN SubSeq(request.customer_state, 1, 2)
                                  ELSE request.customer_state,
                   segment |-> StrLower(request.customer_type)],
     cibil    |-> [score |-> request.cibil_score,
                   status_code |-> IF request.cibil_fetch_status = S_SUCCESS
                                   THEN <<"2","0","0">> ELSE <<"4","0","4">>],
     dedupe   |-> [is_duplicate |-> request.dedupe_match_found,
                   match_score |-> IF Truthy(request.dedupe_match_confidence)
                                   THEN Some(Val(request.dedupe_match_confidence) * 100)
                                   ELSE None]]

NewRequest(request, correlation_id) ==
    [pc             |-> "Adapting",
     request        |-> request,
     correlation_id |-> correlation_id,
     facts          |-> None,
     decision       |-> None,
     audit          |-> <<>>,
     audit_errors   |-> <<>>,
     response       |-> None,
     error          |-> None,
     trace          |-> <<"Adapting">>]

Goto(r, pc) == [r EXCEPT !.pc = pc, !.trace = Append(r.trace, pc)]

\* raise HTTPException(status_code, detail={error, correlation_id, ...})
Fail(r, status_code, error) ==
    [Goto(r, "Failed") EXCEPT
        !.error = Some([status_code |-> status_code, error |-> error,
                        correlation_id |-> r.correlation_id])]

\* The handler's except clauses: ValueError gives 400 VALIDATION_ERROR,
\* RuleEvaluationError gives 500 RULE_EVALUATION_ERROR, any other exception
\* gives 500 INTERNAL_ERROR.
ExceptionResponse(exc) ==
    IF exc = "ValueError" THEN [status_code |-> 400, error |-> "VALIDATION_ERROR"]
    ELSE IF exc = "RuleEvaluationError"
    THEN [status_code |-> 500, error |-> "RULE_EVALUATION_ERROR"]
    ELSE [status_code |-> 500, error |-> "INTERNAL_ERROR"]

\* An exception raised inside the handler's try block
Raise(r, exc) == Fail(r, ExceptionResponse(exc).status_code, ExceptionResponse(exc).error)

\* The handler is entered: correlation_id = request.correlation_id or str(uuid4())
ReceiveRequest(request, fresh) ==
    /\ req.pc = "Idle"
    /\ req' = NewRequest(request,
                         IF IsNone(request.correlation_id) \/ Val(request.correlation_id) = <<>>
                         THEN fresh ELSE Val(request.correlation_id))
    /\ UNCHANGED <<storage, cache, since, written, last, adaptIn, adaptOut, evalIn, evalOut, loaders, held, writer>>

\* Step 1: the DTOs are built and adapted; ValueError gives 400 VALIDATION_ERROR.
AdaptStep(today, fresh) ==
    /\ req.pc = "Adapting"
    /\ LET a == BuildDTOs(req.request) @@
                [correlation_id |-> Some(req.correlation_id), fresh_uuid |-> fresh,
                 today |-> today]
           r == adapt(a)
       IN  req' = IF r.ok
                  THEN [Goto(req, "Evaluating") EXCEPT !.facts = Some(r.facts)]
                  ELSE Raise(req, r.error)
    /\ UNCHANGED <<storage, cache, since, written, last, adaptIn, adaptOut, evalIn, evalOut, loaders, held, writer>>

\* Step 2: rule_engine.evaluate(rule_path, canonical_facts.model_dump()) on the
\* MockRuleEngineService of kyc.py.
EvaluateStep ==
    /\ req.pc = "Evaluating"
    /\ req' = [Goto(req, "Auditing") EXCEPT
                  !.decision = Some(MockEvaluate(KycRulePath, Val(req.facts)))]
    /\ UNCHANGED <<storage, cache, since, written, last, adaptIn, adaptOut, evalIn, evalOut, loaders, held, writer>>

\* Step 3: await audit_service.log_decision(...). An exception escaping it would
\* reach the handler's except Exception: 500 INTERNAL_ERROR.
AuditStep(sink) ==
    /\ req.pc = "Auditing"
    /\ LET decision == Val(req.decision)
           r == log_decision(req.correlation_id, KycRulePath, Val(req.facts), decision,
                             decision.metadata.execution_time_ms, "v1", sink)
       IN  req' = IF r.raised
                  THEN Raise(req, "Exception")
                  ELSE [Goto(req, "Responding") EXCEPT
                           !.audit = req.audit \o r.emitted,
                           !.audit_errors = req.audit_errors \o r.errors]
    /\ UNCHANGED <<storage, cache, since, written, last, adaptIn, adaptOut, evalIn, evalOut, loaders, held, writer>>

\* Step 4: the KYCDecisionResponse is built and returned; a decision without
\* "kyc_eligibility_status" raises KeyError: 500 INTERNAL_ERROR.
RespondStep ==
    /\ req.pc = "Responding"
    /\ LET decision == Val(req.decision)
       IN  req' = IF "kyc_eligibility_status" \in DOMAIN decision
                  THEN [Goto(req, "Complete") EXCEPT
                           !.response =
                               Some([kyc_eligibility_status |-> decision.kyc_eligibility_status,
                                     kyc_rejection_reason   |-> decision.kyc_rejection_reason,
                                     correlation_id         |-> req.correlation_id,
                                     rule_version           |-> decision.metadata.rule_path,
                                     execution_time_ms      |-> decision.metadata.execution_time_ms])]
                  ELSE Raise(req, "KeyError")
    /\ UNCHANGED <<storage, cache, since, written, last, adaptIn, adaptOut, evalIn, evalOut, loaders, held, writer>>

\* The handler has returned or raised: nothing of the request is kept.
RequestDone ==
    /\ req.pc \in {"Complete", "Failed"}
    /\ req' = RequestIdle
    /\ UNCHANGED <<storage, cache, since, written, last, adaptIn, adaptOut, evalIn, evalOut, loaders, held, writer>>

Init ==
    /\ storage \in StorageStates
    /\ EnginesConstructed
    /\ req = RequestIdle
    /\ adaptIn = None /\ adaptOut = NotCalled
    /\ evalIn = None /\ evalOut = NotCalled

Next ==
    \/ \E request \in Requests, fresh \in FreshUuids : ReceiveRequest(request, fresh)
    \/ \E today \in Todays, fresh \in FreshUuids : AdaptStep(today, fresh)
    \/ EvaluateStep
    \/ \E sink \in {"ok", "fails"} : AuditStep(sink)
    \/ RespondStep
    \/ RequestDone

Spec == Init /\ [][Next]_vars

-----------------------------------------------------------------------------
(* Rule management endpoints and the file system: app/api/v1/endpoints/rules.py (SpecFiles) *)

\* Where files are: the directory names from the root of the file system.
\* RULES_DIR = Path(settings.RULES_DIR), resolved.
RULES_DIR == <<"srv", "rules">>

\* Path.resolve() without symbolic links: "." is dropped, ".." leaves the
\* directory reached so far (the root is its own parent).
RECURSIVE Resolve(_)
Resolve(segs) ==
    IF segs = <<>> THEN <<>>
    ELSE LET parent == Resolve(SubSeq(segs, 1, Len(segs) - 1))
             name == segs[Len(segs)]
         IN  IF name = "." THEN parent
             ELSE IF name = ".."
             THEN (IF parent = <<>> THEN <<>> ELSE SubSeq(parent, 1, Len(parent) - 1))
             ELSE Append(parent, name)

\* RULES_DIR / path: an absolute path replaces the directory.
JoinRulesDir(path) == IF path.absolute THEN path.segs ELSE RULES_DIR \o path.segs

\* file_path.resolve().relative_to(RULES_DIR.resolve()) does not raise ValueError
RelativeTo(loc, base) == Len(base) <= Len(loc) /\ SubSeq(loc, 1, Len(base)) = base

\* The file a request path designates.
FileOf(path) == Resolve(JoinRulesDir(path))

\* Values of the {path:path} parameter and of RuleTestRequest.path: the
\* segments between the slashes, and whether the text starts with a slash.
PathSamples ==
    {[absolute |-> FALSE, segs |-> <<"kyc", "pan_eligibility_v1.json">>],
     [absolute |-> FALSE, segs |-> <<"kyc", "..", "kyc", "pan_eligibility_v1.json">>],
     [absolute |-> FALSE, segs |-> <<"..", "secrets.json">>],
     [absolute |-> FALSE, segs |-> <<"kyc", "..", "..", "secrets.json">>],
     [absolute |-> FALSE, segs |-> <<"..", "rules", "kyc", "pan_eligibility_v1.json">>],
     [absolute |-> TRUE, segs |-> <<"etc", "app.json">>]}

\* What a handler did to the file system and what it answered.
FileOp(op, path, status_code, body, reads, writes) ==
    [op |-> op, path |-> path, status_code |-> status_code, body |-> body,
     read |-> reads, written |-> writes]

FilesInit ==
    /\ storage \in [{FileOf(path) : path \in PathSamples} -> {NoFile, Garbage, JsonFile("docA")}]
    /\ cache = [e \in Engines |-> EmptyDict]
    /\ since = [e \in Engines |-> [p \in Paths |-> None]]
    /\ written = [p \in Paths |-> None]
    /\ held = [p \in Paths |-> {}]
    /\ last = FileOp("none", [absolute |-> FALSE, segs |-> <<>>], 0, None, {}, {})
    /\ loaders = [t \in Loaders |-> LoaderIdle]
    /\ writer = "idle"
    /\ req = RequestIdle
    /\ adaptIn = None /\ adaptOut = NotCalled
    /\ evalIn = None /\ evalOut = NotCalled

\* GET /rules/{path}: 404 unless the file exists, else the file is opened and
\* parsed; a parse error gives 500.
get_rule(path) ==
    LET file_path == FileOf(path)
    IN  /\ last' = CASE storage[file_path].kind = "absent" ->
                          FileOp("get", path, 404, None, {}, {})
                     [] storage[file_path].kind = "garbage" ->
                          FileOp("get", path, 500, None, {file_path}, {})
                     [] storage[file_path].kind = "json" ->
                          FileOp("get", path, 200, Some(storage[file_path].doc), {file_path}, {})
        /\ UNCHANGED <<storage, cache, since, written, req, adaptIn, adaptOut, evalIn, evalOut, loaders, held, writer>>

\* PUT /rules/{path}: 403 when the resolved path is not under RULES_DIR, else
\* the file is written and the cache of the module's engine is cleared.
update_rule(path, content) ==
    LET file_path == FileOf(path)
    IN  IF ~RelativeTo(file_path, RULES_DIR)
        THEN /\ last' = FileOp("update", path, 403, None, {}, {})
             /\ UNCHANGED <<storage, cache, since, written, req, adaptIn, adaptOut, evalIn, evalOut, loaders, held, writer>>
        ELSE /\ storage' = [storage EXCEPT ![file_path] = JsonFile(content)]
             /\ cache' = [cache EXCEPT ![EditorEngine] = reload_rules(cache[EditorEngine])]
             /\ last' = FileOp("update", path, 200, None, {}, {file_path})
             /\ UNCHANGED <<since, written, req, adaptIn, adaptOut, evalIn, evalOut, loaders, held, writer>>

\* POST /rules/test: the module's MockRuleEngineService evaluates the facts; it
\* opens no file.
test_rule(path, facts) ==
    /\ last' = FileOp("test", path, 200, Some(MockEvaluate(path, facts)), {}, {})
    /\ UNCHANGED <<storage, cache, since, written, req, adaptIn, adaptOut, evalIn, evalOut, loaders, held, writer>>

FilesNext ==
    \/ \E path \in PathSamples : get_rule(path)
    \/ \E path \in PathSamples, content \in Docs : update_rule(path, content)
    \/ \E path \in PathSamples, facts \in {EmptyDict, BaseFacts} : test_rule(path, facts)

SpecFiles == FilesInit /\ [][FilesNext]_vars

-----------------------------------------------------------------------------
(* Claims on the reference evaluator (SpecEval) *)

\* A mapping that is the dump of a canonical facts record.
IsCanonicalFacts(m) == DOMAIN m = DOMAIN BaseFacts /\ SchemaValid(m)

Outcome(status, reason) == [status |-> status, reason |-> reason]
OutcomeOf(result) ==
    Outcome(result.kyc_eligibility_status, result.kyc_rejection_reason)

\* C1: on every canonical facts record the reference evaluator reports the first
\* failing check in the order status, age, duplicate, credit score, and approves
\* with no reason when no check fails; a record failing both the status and the
\* age check is rejected with PAN_INVALID.
C1_FirstFailingCheckDecides ==
    (evalOut.called /\ IsCanonicalFacts(evalIn)) =>
        LET f == evalIn
            r == evalOut.result
            statusFails == f.pan_verification_status # "VERIFIED"
            ageFails == f.customer_age < MIN_AGE
            dupFails == f.dedupe_match_found
            scoreFails == ~IsNone(f.cibil_score) /\ Val(f.cibil_score) < MIN_CIBIL_SCORE
        IN  /\ "kyc_eligibility_status" \in DOMAIN r
            /\ statusFails => OutcomeOf(r) = Outcome("REJECTED", Some("PAN_INVALID"))
            /\ (~statusFails /\ ageFails) =>
                    OutcomeOf(r) = Outcome("REJECTED", Some("AGE_BELOW_THRESHOLD"))
            /\ (~statusFails /\ ~ageFails /\ dupFails) =>
                    OutcomeOf(r) = Outcome("REJECTED", Some("DUPLICATE_CUSTOMER"))
            /\ (~statusFails /\ ~ageFails /\ ~dupFails /\ scoreFails) =>
                    OutcomeOf(r) = Outcome("REJECTED", Some("CIBIL_SCORE_LOW"))
            /\ (~statusFails /\ ~ageFails /\ ~dupFails /\ ~scoreFails) =>
                    OutcomeOf(r) = Outcome("APPROVED", None)

\* A canonical record failing the status check, the age check, the duplicate
\* check and the score check at once has been evaluated.
C1_Witness ==
    /\ evalOut.called
    /\ IsCanonicalFacts(evalIn)
    /\ evalIn.pan_verification_status = "INVALID"
    /\ evalIn.customer_age = 20
    /\ evalIn.dedupe_match_found
    /\ evalIn.cibil_score = Some(300)
    /\ OutcomeOf(evalOut.result) = Outcome("REJECTED", Some("PAN_INVALID"))

-----------------------------------------------------------------------------
(* Claims on the rule repository and the rule editor (SpecRepo) *)

\* C2: a load(path) that follows a successful load of the same path on the same
\* engine with no reload_rules in between returns the definition returned before
\* and does not open the file; reload_rules leaves the cache empty for every
\* path; a load with no successful load since the last reload_rules opens the
\* file and returns what it holds at that moment.
C2_CachedUntilInvalidated ==
    /\ (last.op = "load" /\ last.use_cache /\ ~IsNone(last.prior)) =>
            /\ last.outcome = "ok"
            /\ last.value = last.prior
            /\ ~last.read
    /\ last.op = "reload" => \A p \in Paths : p \notin DOMAIN cache[last.engine]
    /\ (last.op = "load" /\ IsNone(last.prior)) =>
            /\ last.read
            /\ last.stored.kind = "json" =>
                    (last.outcome = "ok" /\ last.value = Some(last.stored.doc))
            /\ last.stored.kind # "json" => last.outcome = "ValueError"

\* A second load returned the cached definition although the file had changed,
\* on an engine whose cache holds more than one path.
C2_Witness ==
    /\ last.op = "load" /\ last.use_cache
    /\ ~IsNone(last.prior)
    /\ last.stored.kind = "json"
    /\ last.value # Some(last.stored.doc)
    /\ Cardinality(DOMAIN cache[last.engine]) = 2

\* C3 (as claimed): a successful update_rule has emptied the cache of the engine
\* serving KYC decisions, and a load by that engine of a path update_rule has
\* written returns the written content.
C3_EditGoesLive ==
    /\ (last.op = "update" /\ last.outcome = "success") =>
            \A p \in Paths : p \notin DOMAIN cache[KycEngine]
    /\ (/\ last.op = "load" /\ last.engine = KycEngine /\ last.use_cache
        /\ last.outcome = "ok"
        /\ ~IsNone(written[last.path])) =>
            last.value = written[last.path]

-----------------------------------------------------------------------------
(* Claims on the KYC eligibility endpoint (Spec) *)

IsPrefix(s, t) == Len(s) <= Len(t) /\ SubSeq(t, 1, Len(s)) = s

\* The states of the claimed per-request machine a request has been in: the
\* trace without the response assembly that precedes Complete.
ClaimedStates(trace) == SelectSeq(trace, LAMBDA st : st # "Responding")

ClaimedOrder == <<"Adapting", "Loading", "Evaluating", "Auditing", "Complete">>

\* C4 (as claimed): a request goes through Adapting, Loading, Evaluating,
\* Auditing, Complete in that order, each once, or leaves that order for the
\* terminal Failed state.
C4_RequestStateMachine ==
    req.pc # "Idle" =>
        LET st == ClaimedStates(req.trace)
        IN  /\ \/ IsPrefix(st, ClaimedOrder)
               \/ /\ st[Len(st)] = "Failed"
                  /\ IsPrefix(SubSeq(st, 1, Len(st) - 1), SubSeq(ClaimedOrder, 1, 4))
            /\ req.pc = "Complete" => st = ClaimedOrder

\* C5 (as claimed): when the rule file of the request's rule path is missing or
\* unparsable, the request computes no decision and returns no eligibility
\* status.
C5_DecisionOnlyAfterLoad ==
    (req.pc # "Idle" /\ storage[KycRulePath].kind # "json") =>
        /\ IsNone(req.decision)
        /\ IsNone(req.response)

\* C6: once a decision is computed the request is never Failed: the audit step
\* leads to response assembly and response assembly to Complete, whatever the
\* outcome of the audit sink; the response carries the decision computed, and
\* a failed emission leaves only an error log entry.
C6_AuditFailureIsolated ==
    /\ [](req.pc # "Idle" =>
            /\ ~IsNone(req.decision) => req.pc # "Failed"
            /\ req.pc = "Complete" =>
                /\ Val(req.response).kyc_eligibility_status
                        = Val(req.decision).kyc_eligibility_status
                /\ Val(req.response).kyc_rejection_reason
                        = Val(req.decision).kyc_rejection_reason
            /\ Len(req.audit) + Len(req.audit_errors) <= 1)
    /\ [][/\ req.pc = "Auditing" =>
                /\ req'.pc = "Responding"
                /\ req'.decision = req.decision
                /\ Len(req'.audit) + Len(req'.audit_errors) = 1
          /\ req.pc = "Responding" => req'.pc = "Complete"]_vars

\* A request whose audit emission failed has returned an approval.
C6_Witness ==
    /\ req.pc = "Complete"
    /\ req.audit = <<>>
    /\ Len(req.audit_errors) = 1
    /\ Val(req.response).kyc_eligibility_status = "APPROVED"

\* C7 (as claimed): returning the response does not wait for the audit
\* emission: while the emission is still to complete, the response can be
\* returned.
C7_ResponseDoesNotWaitForAudit ==
    req.pc = "Auditing" => ENABLED RespondStep

-----------------------------------------------------------------------------
(* Claims on the fact adapter (SpecAdapt) *)

\* C8 (as claimed): adapt returns a record every field of which satisfies its
\* schema constraint, the correlation id being a lower-case UUID, or fails with
\* ValueError.
C8_AllOrNothing ==
    adaptOut.called =>
        \/ adaptOut.result.ok /\ SchemaValid(adaptOut.result.facts)
        \/ ~adaptOut.result.ok /\ adaptOut.result.error = "ValueError"

CaseInsensitiveEq(s, k) == StrLower(s) = StrLower(k)

\* The value the claim expects of a table lookup: the entry of the key equal to
\* the vendor string (up to letter case when `fold`), else the default.
TableExpects(table, s, fold, default, v) ==
    /\ \A k \in DOMAIN table :
          (IF fold THEN CaseInsensitiveEq(s, k) ELSE s = k) => v = table[k]
    /\ (\A k \in DOMAIN table : ~(IF fold THEN CaseInsensitiveEq(s, k) ELSE s = k))
          => v = default

\* C9: normalisation is total: whatever the vendor strings, with the other
\* inputs valid adapt returns a record, and in every returned record each
\* enumeration field is the table entry of the vendor string (matched without
\* regard to letter case for status, state and segment) or the documented
\* default: ERROR, OTHER, RETAIL, FAILURE.
C9_NormalizationTotal ==
    adaptOut.called =>
        LET a == adaptIn
            r == adaptOut.result
        IN  /\ a \in AdaptInputsCodes => r.ok
            /\ r.ok =>
                /\ TableExpects(KARZA_STATUS_MAP, a.karza.status, TRUE, "ERROR",
                                r.facts.pan_verification_status)
                /\ TableExpects(STATE_CODE_MAP, a.customer.state_code, TRUE, "OTHER",
                                r.facts.customer_state)
                /\ TableExpects(CUSTOMER_SEGMENT_MAP, a.customer.segment, TRUE, "RETAIL",
                                r.facts.customer_type)
                /\ TableExpects(CIBIL_STATUS_MAP, a.cibil.status_code, FALSE, "FAILURE",
                                r.facts.cibil_fetch_status)
                /\ r.facts.pan_verification_status \in PANVerificationStatus
                /\ r.facts.customer_state \in CustomerState
                /\ r.facts.customer_type \in CustomerType
                /\ r.facts.cibil_fetch_status \in CIBILFetchStatus

\* A supported status in another letter case and an unrecognised state code
\* have been normalised.
C9_Witness ==
    /\ adaptOut.called /\ adaptOut.result.ok
    /\ adaptIn.karza.status = <<"V","A","L","I","D">>
    /\ adaptOut.result.facts.pan_verification_status = "VERIFIED"
    /\ adaptIn.customer.state_code = <<"X","X">>
    /\ adaptOut.result.facts.customer_state = "OTHER"

\* clamp(x, 0, 100) / 100 at the resolution of the fixed-point representation
IsClampedScale(x, v) ==
    /\ (x >= 0 /\ x <= 100 * One) =>
            (v * PERCENT_SCALE <= x /\ x < (v + 1) * PERCENT_SCALE)
    /\ (x >= 0 /\ x <= 100 * One /\ x % PERCENT_SCALE = 0) => v * PERCENT_SCALE = x
    /\ x > 100 * One => v = One
    /\ x < 0 => v = 0

\* C10: the name-match score and the duplicate match confidence of a returned
\* record are clamp(x, 0, 100)/100 of the vendor percentage x, the conversion is
\* monotonic, and no percentage makes adapt fail.
C10_ScaleConversionClamps ==
    adaptOut.called =>
        LET a == adaptIn
            r == adaptOut.result
        IN  /\ a \in AdaptInputsScores => r.ok
            /\ r.ok =>
                /\ IsClampedScale(a.karza.name_match_percentage,
                                  r.facts.pan_name_match_score)
                /\ IsNone(a.dedupe.match_score) = IsNone(r.facts.dedupe_match_confidence)
                /\ ~IsNone(a.dedupe.match_score) =>
                        IsClampedScale(Val(a.dedupe.match_score),
                                       Val(r.facts.dedupe_match_confidence))
                /\ \A y \in PercentSamples :
                        y <= a.karza.name_match_percentage =>
                            ScaleToUnit(y) <= r.facts.pan_name_match_score

\* A name-match percentage above 100 and a duplicate score below 0 were clamped.
C10_Witness ==
    /\ adaptOut.called /\ adaptOut.result.ok
    /\ adaptIn.karza.name_match_percentage = 150 * One
    /\ adaptOut.result.facts.pan_name_match_score = One
    /\ adaptIn.dedupe.match_score = Some(-10 * One)
    /\ adaptOut.result.facts.dedupe_match_confidence = Some(0)

-----------------------------------------------------------------------------
(* Claims on the derived age (SpecAdapt) *)

\* The calendar day after d.
NextDay(d) ==
    IF d[3] < DaysInMonth(d[1], d[2]) THEN <<d[1], d[2], d[3] + 1>>
    ELSE IF d[2] < 12 THEN <<d[1], d[2] + 1, 1>>
    ELSE <<d[1] + 1, 1, 1>>

\* (month, day) as one number, ordered as the calendar orders the days of a year
DayOfYearKey(d) == 100 * d[2] + d[3]

AdaptSucceeded == adaptOut.called /\ adaptOut.result.ok
AdaptFailed == adaptOut.called /\ ~adaptOut.result.ok
AdaptedAge == adaptOut.result.facts.customer_age
YearDifference == (adaptIn.today)[1] - (adaptIn.customer.date_of_birth)[1]
BirthdayIsToday ==
    DayOfYearKey(adaptIn.today) = DayOfYearKey(adaptIn.customer.date_of_birth)
BirthdayIsTomorrow ==
    DayOfYearKey(NextDay(adaptIn.today)) = DayOfYearKey(adaptIn.customer.date_of_birth)

\* The general rule of C11: the year difference, minus one exactly when today's
\* (month, day) precedes the birth (month, day); the year difference itself on
\* the birthday.
AgeRule ==
    /\ AdaptedAge = YearDifference
            - (IF DayOfYearKey(adaptIn.today) < DayOfYearKey(adaptIn.customer.date_of_birth)
               THEN 1 ELSE 0)
    /\ BirthdayIsToday => AdaptedAge = YearDifference

\* C11 (amended): the age of a returned record follows the general rule, and is
\* the year difference minus one when the birthday is tomorrow in the same
\* calendar year; on 31 December with a birthday on 1 January it is the year
\* difference.
C11_AgeFromBirthDate ==
    AdaptSucceeded =>
        /\ AgeRule
        /\ BirthdayIsTomorrow =>
                AdaptedAge = (IF NextDay(adaptIn.today)[1] = (adaptIn.today)[1]
                              THEN YearDifference - 1 ELSE YearDifference)

\* C11 (as claimed): the age is the year difference minus one whenever the
\* birthday is one day after today.
C11_AgeFromBirthDate_AsClaimed ==
    AdaptSucceeded =>
        /\ AgeRule
        /\ BirthdayIsTomorrow => AdaptedAge = YearDifference - 1

\* A record was returned for a customer whose birthday is tomorrow, and one year
\* was subtracted.
C11_Witness ==
    /\ AdaptSucceeded
    /\ BirthdayIsTomorrow
    /\ adaptIn.today = <<2026, 11, 2>>
    /\ AdaptedAge = YearDifference - 1

\* The age the adapter derives from the inputs of the call, by the rule of C11.
DerivedAge ==
    YearDifference
        - (IF DayOfYearKey(adaptIn.today) < DayOfYearKey(adaptIn.customer.date_of_birth)
           THEN 1 ELSE 0)

\* The inputs of the call meet every constraint of the schema other than the
\* one on the age.
OtherConstraintsMet ==
    /\ PanPatternOk(StrUpper(adaptIn.karza.pan))
    /\ \/ IsNone(adaptIn.cibil.score)
       \/ Val(adaptIn.cibil.score) >= 300 /\ Val(adaptIn.cibil.score) <= 900
    /\ \/ IsNone(adaptIn.correlation_id)
       \/ UuidRegexMatch(Val(adaptIn.correlation_id))

\* C12: an adaptation whose derived age is below 18 or above 120 fails with
\* ValueError; one whose derived age is in 18..120 passes the age constraint:
\* it returns a record with that age when the other constraints are met.
C12_AgeBoundInclusive ==
    (adaptOut.called /\ StrptimeOk(adaptIn.customer.date_of_birth)) =>
        /\ (DerivedAge < 18 \/ DerivedAge > 120) =>
                /\ ~adaptOut.result.ok
                /\ adaptOut.result.error = "ValueError"
        /\ (DerivedAge >= 18 /\ DerivedAge <= 120 /\ OtherConstraintsMet) =>
                /\ adaptOut.result.ok
                /\ AdaptedAge = DerivedAge

\* A customer who turns 18 today was accepted, with age 18.
C12_Witness ==
    /\ AdaptSucceeded
    /\ adaptIn.today = <<2026, 11, 2>>
    /\ adaptIn.customer.date_of_birth = <<2008, 11, 2>>
    /\ AdaptedAge = 18

\* A customer who turns 18 tomorrow was refused.
C12_WitnessRefused ==
    /\ AdaptFailed
    /\ adaptIn.today = <<2026, 11, 2>>
    /\ adaptIn.customer.date_of_birth = <<2008, 11, 3>>
    /\ OtherConstraintsMet

-----------------------------------------------------------------------------
(* Claims on adapt followed by the reference evaluator (SpecAdapt) *)

S_invalid == <<"i","n","v","a","l","i","d">>

\* C13: whenever adapt accepts a call whose vendor verification status is
\* "invalid", the reference evaluator can evaluate the record, and its decision
\* is REJECTED with reason PAN_INVALID whatever the other source fields are.
C13_InvalidStatusRejected ==
    (AdaptSucceeded /\ adaptIn.karza.status = S_invalid) =>
        /\ adaptOut.result.facts.pan_verification_status = "INVALID"
        /\ ~evalOut.called => ENABLED EvaluateAdapted
        /\ evalOut.called =>
              OutcomeOf(evalOut.result) = Outcome("REJECTED", Some("PAN_INVALID"))

\* A record with vendor status "invalid" that passes every other check of the
\* evaluator (age 26, no duplicate, score 750) was rejected with PAN_INVALID.
C13_Witness ==
    /\ AdaptSucceeded /\ evalOut.called
    /\ adaptIn.karza.status = S_invalid
    /\ evalIn.customer_age = 26
    /\ ~evalIn.dedupe_match_found
    /\ evalIn.cibil_score = Some(750)
    /\ OutcomeOf(evalOut.result) = Outcome("REJECTED", Some("PAN_INVALID"))

\* A record with vendor status "invalid" that would also fail the duplicate
\* check was rejected with PAN_INVALID.
C13_WitnessDuplicate ==
    /\ AdaptSucceeded /\ evalOut.called
    /\ adaptIn.karza.status = S_invalid
    /\ evalIn.dedupe_match_found
    /\ OutcomeOf(evalOut.result) = Outcome("REJECTED", Some("PAN_INVALID"))

-----------------------------------------------------------------------------
(* Claims on the correlation id (SpecAdapt) *)

\* C14 (as claimed): the correlation id of a returned record is a UUID in lower
\* case: the generated one when the caller supplied none, the supplied one in
\* lower case otherwise; a supplied id that is not UUID-formed makes adapt fail
\* with ValueError.
C14_CorrelationIdLowerUuid ==
    adaptOut.called =>
        /\ adaptOut.result.ok =>
              /\ IsLowerUuid(adaptOut.result.facts.correlation_id)
              /\ adaptOut.result.facts.correlation_id =
                    (IF IsNone(adaptIn.correlation_id) THEN adaptIn.fresh_uuid
                     ELSE StrLower(Val(adaptIn.correlation_id)))
        /\ (~IsNone(adaptIn.correlation_id) /\ ~UuidShape(Val(adaptIn.correlation_id))) =>
              /\ ~adaptOut.result.ok
              /\ adaptOut.result.error = "ValueError"

-----------------------------------------------------------------------------
(* Claims on the errors of the KYC eligibility endpoint (Spec) *)

RequestEnded == req.pc \in {"Complete", "Failed"}
RuleLoadable == storage[KycRulePath].kind = "json"
FailedWith(status_code) ==
    /\ req.pc = "Failed"
    /\ Val(req.error).status_code = status_code
    /\ Val(req.error).correlation_id = req.correlation_id

\* Every failure carries the correlation id of the request, the generated one
\* when the request supplied none; a failed adaptation is reported with 400.
C15_ReportedFailures ==
    RequestEnded =>
        /\ IsNone(req.facts) => FailedWith(400)
        /\ req.pc = "Failed" =>
              /\ Val(req.error).correlation_id = req.correlation_id
              /\ IsNone(req.request.correlation_id) =>
                    Val(req.error).correlation_id \in FreshUuids
              /\ (~IsNone(req.request.correlation_id)
                    /\ Val(req.request.correlation_id) # <<>>) =>
                    Val(req.error).correlation_id = Val(req.request.correlation_id)

\* C15 (as claimed): a request that ends after a failure of a component is
\* reported by component, with the correlation id of the request: 400 for a
\* failed adaptation, 500 when the rule of the request cannot be loaded from the
\* repository.
C15_FailuresClassified ==
    /\ C15_ReportedFailures
    /\ (RequestEnded /\ ~IsNone(req.facts) /\ ~RuleLoadable) => FailedWith(500)

-----------------------------------------------------------------------------
(* Claims on the errors of the rule repository (SpecRepo) *)

\* The error kind load_rule reports when the file of the path holds f.
LoadErrorKind(f, rule_path) ==
    load_rule(EmptyDict, [p \in Paths |-> f], rule_path, TRUE).outcome

\* C16 (as claimed): a failed load reports an error kind that tells which of
\* the two faults occurred: the kind reported for a missing definition is never
\* the kind reported for content that cannot be parsed.
C16_DistinctLoadErrors ==
    (last.op = "load" /\ last.outcome # "ok") =>
        /\ last.stored \in {NoFile, Garbage}
        /\ \A f \in {NoFile, Garbage} \ {last.stored} :
              LoadErrorKind(f, last.path) # last.outcome

-----------------------------------------------------------------------------
(* Claims on the delegating evaluator (SpecDelegate) *)

\* C17: an invocation calls the external engine at most once, and not at all
\* when the rule cannot be loaded; when the engine is unavailable, raises, or
\* returns no result dict, the invocation ends with RuleEvaluationError and
\* returns nothing; a result is returned only when the engine returned one, and
\* it is the engine's.
C17_EngineFaultsSurface ==
    evalOut.called =>
        LET r == evalOut.result
            engine == evalOut.engine
        IN  /\ r.engine_calls <= 1
            /\ ~evalOut.loadable => r.engine_calls = 0
            /\ (~engine.available \/ engine.does # "returns") =>
                  /\ r.outcome = "RuleEvaluationError"
                  /\ IsNone(r.value)
            /\ r.outcome = "ok" =>
                  /\ engine.available /\ engine.does = "returns"
                  /\ r.engine_calls = 1
                  /\ Val(r.value).result = engine.output
            /\ r.outcome \in {"ok", "RuleEvaluationError"}

\* The rule was loaded and the engine raised: RuleEvaluationError after one call.
C17_Witness ==
    /\ evalOut.called
    /\ evalOut.loadable
    /\ evalOut.engine.available /\ evalOut.engine.does = "raises"
    /\ evalOut.result.outcome = "RuleEvaluationError"
    /\ evalOut.result.engine_calls = 1

\* The engine is unavailable: RuleEvaluationError, although the rule was loaded.
C17_WitnessUnavailable ==
    /\ evalOut.called
    /\ evalOut.loadable
    /\ ~evalOut.engine.available
    /\ evalOut.result.outcome = "RuleEvaluationError"

-----------------------------------------------------------------------------
(* Claims on the audit records of a request (Spec) *)

\* What holds of the audit records of a request in every state, whatever the
\* outcome of the emission: at most one record, none before a decision is
\* computed, and a record is the record of the request's decision.
AuditAtMostOnce ==
    req.pc # "Idle" =>
        /\ Len(req.audit) <= 1
        /\ IsNone(req.decision) => req.audit = <<>>
        /\ req.audit # <<>> =>
              /\ req.audit[1].decision_output = Val(req.decision)
              /\ req.audit[1].input_facts = Val(req.facts)
              /\ req.audit[1].correlation_id = req.correlation_id

\* C18 (amended): a request emits at most one audit record, none when it fails
\* before evaluation completes, and an emitted record is never changed; a
\* request that reaches Complete has emitted exactly one record unless the
\* emission failed, in which case it has emitted none and logged one error.
C18_AuditWriteOnce ==
    /\ [](/\ AuditAtMostOnce
          /\ req.pc = "Complete" =>
                \/ Len(req.audit) = 1 /\ req.audit_errors = <<>>
                \/ Len(req.audit) = 0 /\ Len(req.audit_errors) = 1)
    /\ [][(req.pc # "Idle" /\ req.audit # <<>> /\ req'.pc # "Idle")
              => req'.audit = req.audit]_vars

\* C18 (as claimed): every request that reaches Complete has emitted exactly
\* one audit record.
C18_AuditWriteOnce_AsClaimed ==
    /\ AuditAtMostOnce
    /\ req.pc = "Complete" => Len(req.audit) = 1

\* A completed request whose one audit record holds its decision.
C18_Witness ==
    /\ req.pc = "Complete"
    /\ Len(req.audit) = 1
    /\ req.audit[1].decision_output.kyc_eligibility_status = "REJECTED"
    /\ Val(req.response).kyc_eligibility_status = "REJECTED"

-----------------------------------------------------------------------------
(* Claims on the facts record after construction (SpecRecord) *)

\* C19 (as claimed): a record returned by adapt cannot be changed: at any later
\* moment it is the record adapt returned, and satisfies every constraint of
\* the schema.
C19_FactsImmutable ==
    AdaptSucceeded =>
        /\ adaptOut.result.facts = adapt(adaptIn).facts
        /\ SchemaValid(adaptOut.result.facts)

-----------------------------------------------------------------------------
(* Claims on concurrent loads (SpecConc) *)

\* C20: under interleaved loads, reloads and writes of the file, every cache
\* entry, every definition a caller holds and every definition a load returns
\* is a complete definition the file of the path has held; a caller's insertion
\* replaces the entry with the definition it parsed and returns that definition.
C20_NoPartialDefinition ==
    /\ [](/\ \A e \in Engines : \A p \in DOMAIN cache[e] : cache[e][p] \in held[p]
          /\ \A t \in Loaders :
                loaders[t].pc = "inserting" => Val(loaders[t].rule_def) \in held[ContendedPath]
          /\ (last.op = "load" /\ last.outcome = "ok") => Val(last.value) \in held[last.path])
    /\ [][\A t \in Loaders :
            (loaders[t].pc = "inserting" /\ loaders'[t].pc = "idle") =>
                /\ cache'[SharedEngine][ContendedPath] = Val(loaders[t].rule_def)
                /\ last'.value = loaders[t].rule_def]_vars

\* Two callers missed the cache and parsed the file at different moments: both
\* are about to insert, one of them a definition the file no longer holds.
C20_Witness ==
    /\ loaders[1].pc = "inserting" /\ loaders[2].pc = "inserting"
    /\ loaders[1].rule_def # loaders[2].rule_def
    /\ storage[ContendedPath] = JsonFile(Val(loaders[2].rule_def))
    /\ ContendedPath \notin DOMAIN cache[SharedEngine]

\* The state the staleness window is about: update_rule has written the file
\* and completed its reload_rules, and the cache entry of the path, inserted
\* since that reload, is a definition read before the write.
StaleAfterInvalidate ==
    /\ writer = "idle"
    /\ written[ContendedPath] # None
    /\ storage[ContendedPath] = JsonFile(Val(written[ContendedPath]))
    /\ ContendedPath \in DOMAIN cache[SharedEngine]
    /\ cache[SharedEngine][ContendedPath] # Val(written[ContendedPath])

\* C21: once a load that read the file before a write has inserted its stale
\* definition after the writer's reload_rules completed, the next load of the
\* path reads the file again and returns the definition the file holds now.
C21_StalenessBounded ==
    StaleAfterInvalidate =>
        LET r == load_rule(cache[SharedEngine], storage, ContendedPath, TRUE)
        IN  /\ r.read
            /\ r.value = written[ContendedPath]

-----------------------------------------------------------------------------
(* Claims on what a decision request reports (Spec) *)

\* C22: when a decision request completes, the canonical facts, the response
\* and every audit record of the request (its own correlation id and the one in
\* its fact snapshot) carry one and the same correlation id.
C22_OneCorrelationId ==
    req.pc = "Complete" =>
        LET id == Val(req.facts).correlation_id
        IN  /\ Val(req.response).correlation_id = id
            /\ \A i \in 1..Len(req.audit) :
                  /\ req.audit[i].correlation_id = id
                  /\ req.audit[i].input_facts.correlation_id = id

\* The request names members of the four enumerations
NamesEnumMembers(request) ==
    /\ \E m \in PANVerificationStatus : request.pan_verification_status = EnumText[m]
    /\ \E m \in CustomerState : request.customer_state = EnumText[m]
    /\ \E m \in CustomerType : request.customer_type = EnumText[m]
    /\ \E m \in CIBILFetchStatus : request.cibil_fetch_status = EnumText[m]

\* C23: when the request gives the verification status, the state, the customer
\* type and the credit fetch status as enumeration names, the canonical facts
\* handed to the evaluator hold exactly those members.
C23_EnumFieldsPreserved ==
    (req.pc # "Idle" /\ req.facts # None /\ NamesEnumMembers(req.request)) =>
        LET facts == Val(req.facts)
        IN  /\ EnumText[facts.pan_verification_status] = req.request.pan_verification_status
            /\ EnumText[facts.customer_state] = req.request.customer_state
            /\ EnumText[facts.customer_type] = req.request.customer_type
            /\ EnumText[facts.cibil_fetch_status] = req.request.cibil_fetch_status

\* C24: the age in the facts that are evaluated is the age given in the
\* request.
C24_AgeFromRequest ==
    (req.pc # "Idle" /\ req.facts # None) =>
        Val(req.facts).customer_age = req.request.customer_age

\* C25: every audit record of a completed request reports the rule version and
\* the execution duration the response reports.
C25_AuditMatchesResponse ==
    req.pc = "Complete" =>
        \A i \in 1..Len(req.audit) :
            /\ req.audit[i].rule_version = Some(Val(req.response).rule_version)
            /\ req.audit[i].execution_time_ms = Val(req.response).execution_time_ms

-----------------------------------------------------------------------------
(* Further claims on the reference evaluator (SpecEval) *)

\* C26: whatever facts mapping the reference evaluator is given, its output
\* holds an eligibility status, the status is APPROVED or REJECTED, and a
\* rejection reason is present exactly when the status is REJECTED.
C26_WellFormedDecision ==
    evalOut.called =>
        LET r == evalOut.result
        IN  /\ "kyc_eligibility_status" \in DOMAIN r
            /\ r.kyc_eligibility_status \in KYCEligibilityStatus \cap {"APPROVED", "REJECTED"}
            /\ "kyc_rejection_reason" \in DOMAIN r
            /\ (r.kyc_rejection_reason # None) <=> (r.kyc_eligibility_status = "REJECTED")

\* The fact fields the reference evaluator reads
DecidingFields == {"pan_verification_status", "customer_age", "dedupe_match_found", "cibil_score"}

\* Two mappings agree on the deciding fields: each is present in both or in
\* neither, with the same value.
AgreeOnDecidingFields(f, g) ==
    \A k \in DecidingFields :
        /\ (k \in DOMAIN f) <=> (k \in DOMAIN g)
        /\ (k \in DOMAIN f) => f[k] = g[k]

\* The eligibility status and rejection reason of an output, "absent" where the
\* output has no such key.
StatusAndReason(r) ==
    [status |-> DictGet(r, "kyc_eligibility_status", "absent"),
     reason |-> DictGet(r, "kyc_rejection_reason", "absent")]

\* C27: two calls of the reference evaluator whose facts agree on verification
\* status, age, duplicate-found and credit score return the same status and
\* reason, whatever the other fields, the rule path, the cache content and the
\* calls in between; a call changes neither the facts mapping nor the cache.
C27_DeterministicStateless ==
    /\ []((evalOut.called /\ evalOut.prev # None) =>
            (AgreeOnDecidingFields(Val(evalOut.prev).facts, evalIn) =>
                StatusAndReason(Val(evalOut.prev).result) = StatusAndReason(evalOut.result)))
    /\ [][(~evalOut.called /\ evalOut'.called) =>
            /\ evalIn' = evalIn
            /\ cache' = cache
            /\ storage' = storage]_vars

\* Two calls that agree on the deciding fields and differ in other fields are
\* both approved, on an engine whose cache holds a loaded rule.
C27_Witness ==
    /\ evalOut.called /\ evalOut.prev # None
    /\ Val(evalOut.prev).facts # evalIn
    /\ AgreeOnDecidingFields(Val(evalOut.prev).facts, evalIn)
    /\ "customer_state" \in DOMAIN evalIn \cap DOMAIN Val(evalOut.prev).facts
    /\ evalIn.customer_state # Val(evalOut.prev).facts.customer_state
    /\ evalOut.result.kyc_eligibility_status = "APPROVED"
    /\ cache[KycEngine] # EmptyDict

-----------------------------------------------------------------------------
(* Further claims on the rule repository (SpecRepo) *)

\* C28: a load_rule that fails, the file being missing or unparsable, leaves
\* the cache of every engine as it was, with use_cache true or false: no entry
\* is inserted, and an entry the path already had is kept.
C28_FailedLoadKeepsCache ==
    [][(last'.op = "load" /\ last'.outcome = "ValueError") => cache' = cache]_vars

\* A load that bypassed the cache failed on an unparsable file while the cache
\* held an earlier definition of the path and of the other path: they are kept.
C28_Witness ==
    /\ last.op = "load" /\ last.outcome = "ValueError" /\ ~last.use_cache
    /\ last.stored = Garbage
    /\ DOMAIN cache[last.engine] = Paths
    /\ since[last.engine][last.path] = Some(cache[last.engine][last.path])

\* A load failed on a missing file with the cache consulted and empty.
C28_WitnessMissing ==
    /\ last.op = "load" /\ last.outcome = "ValueError" /\ last.use_cache
    /\ last.stored = NoFile
    /\ cache[last.engine] = EmptyDict

-----------------------------------------------------------------------------
(* Further claims on the fact adapter (SpecAdapt) *)

\* C29: every record adapt returns has an alphanumeric PAN and an age of at
\* least 18, and validate_facts_against_registry called on it does not raise
\* FactValidationError.
C29_RegistryCheckNeverFails ==
    /\ AdaptSucceeded =>
          /\ IsAlnum(adaptOut.result.facts.pan_number)
          /\ adaptOut.result.facts.customer_age >= MIN_REGISTRY_AGE
    /\ "registry" \in DOMAIN adaptOut => adaptOut.registry.ok

\* The registry check passed on a record whose PAN the vendor gave in lower
\* case and whose age is exactly 18.
C29_Witness ==
    /\ "registry" \in DOMAIN adaptOut
    /\ adaptOut.registry.ok
    /\ adaptIn.karza.pan = PanLower
    /\ adaptOut.result.facts.customer_age = MIN_REGISTRY_AGE

\* A PAN with a character that is not alphanumeric was refused by adapt.
C29_WitnessRefused ==
    /\ AdaptFailed
    /\ adaptIn.karza.pan = PanDash
    /\ StrptimeOk(adaptIn.customer.date_of_birth)
    /\ ComputeAge(adaptIn.today, adaptIn.customer.date_of_birth) = 34

-----------------------------------------------------------------------------
(* Claims on the rule management endpoints (SpecFiles) *)

\* C30: a get_rule, update_rule or test_rule whose path resolves outside the
\* rules directory reads, creates and writes no file.
C30_NoFileOutsideRulesDir ==
    (last.op \in {"get", "update", "test"} /\ ~RelativeTo(FileOf(last.path), RULES_DIR)) =>
        last.read = {} /\ last.written = {}

=============================================================================
